---------------------------- MODULE Spec2Model ----------------------------
(***************************************************************************)
(* Property comparison service: the address -> record generator, the      *)
(* catalog normalizer and the closed-form valuation, as implemented by    *)
(* the FastAPI backend (backend/data_loader.py, backend/main.py) and by   *)
(* the serverless function (api/compare-addresses.py).                    *)
(*                                                                         *)
(* Strings the code inspects (addresses, titles, amenities, city keys)    *)
(* are sequences of code points, so hashing, trimming, lower-casing,      *)
(* splitting and substring search are computed as the code computes them. *)
(* Strings the code only copies (image URLs, enum values) are TLA+        *)
(* strings.  Prices are whole dollars: every term of the valuation is a   *)
(* whole number, so the double arithmetic and round(price, 2) are exact.  *)
(***************************************************************************)
EXTENDS Integers, Sequences, FiniteSets

(***************************************************************************)
(* Bounds of the model.                                                    *)
(***************************************************************************)
\* an address is the concatenation of at most MaxParts fragments
MaxParts == 2
\* number of processes (string-hash seeds) a call can be served by
NumSeeds == 2
\* rows of the basic, features and images tables
MaxBasic == 2
MaxFeatures == 1
MaxImages == 1
NumWorkers == 2

(***************************************************************************)
(* Python string and container primitives.                                 *)
(***************************************************************************)
\* the value of a missing key / a function returning nothing
None == "<None>"

\* str.isspace, for the code points below 256
isspace(c) == c \in {9, 10, 11, 12, 13, 28, 29, 30, 31, 32, 133, 160}

\* str.lower, for ASCII text
lower(s) == [i \in 1..Len(s) |-> IF s[i] \in 65..90 THEN s[i] + 32 ELSE s[i]]

RECURSIVE lstrip(_)
lstrip(s) == IF s = <<>> THEN s
             ELSE IF isspace(Head(s)) THEN lstrip(Tail(s)) ELSE s

RECURSIVE rstrip(_)
rstrip(s) == IF s = <<>> THEN s
             ELSE IF isspace(s[Len(s)]) THEN rstrip(SubSeq(s, 1, Len(s) - 1)) ELSE s

\* str.strip()
strip(s) == rstrip(lstrip(s))

\* the Python expression `needle in hay` on strings
str_in(needle, hay) ==
  \E i \in 0..(Len(hay) - Len(needle)) :
    \A j \in 1..Len(needle) : hay[i + j] = needle[j]

\* str.split(sep) for a one-character separator
RECURSIVE split(_, _)
split(s, sep) ==
  IF \A i \in 1..Len(s) : s[i] # sep THEN <<s>>
  ELSE LET i == CHOOSE k \in 1..Len(s) : s[k] = sep /\ \A j \in 1..(k - 1) : s[j] # sep
       IN  <<SubSeq(s, 1, i - 1)>> \o split(SubSeq(s, i + 1, Len(s)), sep)

\* sep.join(parts)
RECURSIVE join(_, _)
join(sep, parts) ==
  IF parts = <<>> THEN <<>>
  ELSE IF Len(parts) = 1 THEN parts[1]
  ELSE parts[1] \o sep \o join(sep, Tail(parts))

\* str(n) for n >= 0
RECURSIVE str(_)
str(n) == IF n < 10 THEN <<48 + n>> ELSE str(n \div 10) \o <<48 + (n % 10)>>

\* the list slice xs[:n]
first_n(xs, n) == SubSeq(xs, 1, IF Len(xs) < n THEN Len(xs) ELSE n)

\* the list slice xs[-n:]
last_n(xs, n) == SubSeq(xs, IF Len(xs) < n THEN 1 ELSE Len(xs) - n + 1, Len(xs))

\* dict.get(key, default) on a record
get(f, key, default) == IF key \in DOMAIN f THEN f[key] ELSE default

max(a, b) == IF a > b THEN a ELSE b
min(a, b) == IF a < b THEN a ELSE b

Range(xs) == {xs[i] : i \in DOMAIN xs}

\* the distinct elements of a list, each at its first occurrence
RECURSIVE distinct(_)
distinct(xs) ==
  IF xs = <<>> THEN <<>>
  ELSE LET init == distinct(SubSeq(xs, 1, Len(xs) - 1))
           x    == xs[Len(xs)]
       IN  IF x \in Range(init) THEN init ELSE Append(init, x)

RECURSIVE factorial(_)
factorial(n) == IF n <= 1 THEN 1 ELSE n * factorial(n - 1)

without(xs, i) == SubSeq(xs, 1, i - 1) \o SubSeq(xs, i + 1, Len(xs))

\* the k-th arrangement of a list, k in 0 .. factorial(Len(xs)) - 1
RECURSIVE arrangement(_, _)
arrangement(xs, k) ==
  IF xs = <<>> THEN <<>>
  ELSE LET f == factorial(Len(xs) - 1)
           i == (k \div f) + 1
       IN  <<xs[i]>> \o arrangement(without(xs, i), k % f)

\* list(set(xs)): the distinct elements in the iteration order of a set of
\* strings, which depends on the process's string-hash seed (PYTHONHASHSEED)
\* and on nothing else; pid stands for that seed.  Seeds are spread over the
\* arrangements so that a few seeds already move every position.
list_set(xs, pid) ==
  LET d == distinct(xs)
  IN  arrangement(d, (pid * 7) % factorial(Len(d)))

(***************************************************************************)
(* Outcome of a call: a returned value or a raised exception.              *)
(***************************************************************************)
Return(v) == [status |-> "ok", value |-> v]
Raise(e)  == [status |-> e, value |-> None]

(***************************************************************************)
(* backend/data_loader.py: mock data generation from an address.           *)
(***************************************************************************)
MOCK_IMAGES ==
  <<
    "https://images.pexels.com/photos/106399/pexels-photo-106399.jpeg",
    "https://images.pexels.com/photos/259588/pexels-photo-259588.jpeg",
    "https://images.pexels.com/photos/323780/pexels-photo-323780.jpeg",
    "https://images.pexels.com/photos/271624/pexels-photo-271624.jpeg",
    "https://images.pexels.com/photos/534151/pexels-photo-534151.jpeg",
    "https://images.pexels.com/photos/1396122/pexels-photo-1396122.jpeg",
    "https://images.pexels.com/photos/1029599/pexels-photo-1029599.jpeg",
    "https://images.pexels.com/photos/2102587/pexels-photo-2102587.jpeg"
  >>

CITY_DATA ==
  <<
    \* "new york"
    [key |-> <<110,101,119,32,121,111,114,107>>,
     avg_price |-> 850000, school |-> 8, type |-> "Condo", sqft_range |-> <<800, 2000>>],
    \* "manhattan"
    [key |-> <<109,97,110,104,97,116,116,97,110>>,
     avg_price |-> 1200000, school |-> 9, type |-> "Condo", sqft_range |-> <<600, 1800>>],
    \* "brooklyn"
    [key |-> <<98,114,111,111,107,108,121,110>>,
     avg_price |-> 750000, school |-> 7, type |-> "Condo", sqft_range |-> <<900, 2200>>],
    \* "los angeles"
    [key |-> <<108,111,115,32,97,110,103,101,108,101,115>>,
     avg_price |-> 950000, school |-> 7, type |-> "SFH", sqft_range |-> <<1500, 3500>>],
    \* "san francisco"
    [key |-> <<115,97,110,32,102,114,97,110,99,105,115,99,111>>,
     avg_price |-> 1400000, school |-> 9, type |-> "Condo", sqft_range |-> <<800, 2000>>],
    \* "miami"
    [key |-> <<109,105,97,109,105>>,
     avg_price |-> 550000, school |-> 6, type |-> "Condo", sqft_range |-> <<1000, 2500>>],
    \* "chicago"
    [key |-> <<99,104,105,99,97,103,111>>,
     avg_price |-> 450000, school |-> 7, type |-> "Condo", sqft_range |-> <<1000, 2200>>],
    \* "boston"
    [key |-> <<98,111,115,116,111,110>>,
     avg_price |-> 750000, school |-> 9, type |-> "Condo", sqft_range |-> <<800, 1800>>],
    \* "seattle"
    [key |-> <<115,101,97,116,116,108,101>>,
     avg_price |-> 800000, school |-> 8, type |-> "SFH", sqft_range |-> <<1200, 2800>>],
    \* "austin"
    [key |-> <<97,117,115,116,105,110>>,
     avg_price |-> 550000, school |-> 8, type |-> "SFH", sqft_range |-> <<1500, 3000>>],
    \* "dallas"
    [key |-> <<100,97,108,108,97,115>>,
     avg_price |-> 450000, school |-> 7, type |-> "SFH", sqft_range |-> <<1800, 3500>>],
    \* "denver"
    [key |-> <<100,101,110,118,101,114>>,
     avg_price |-> 600000, school |-> 8, type |-> "SFH", sqft_range |-> <<1400, 2800>>],
    \* "phoenix"
    [key |-> <<112,104,111,101,110,105,120>>,
     avg_price |-> 450000, school |-> 6, type |-> "SFH", sqft_range |-> <<1600, 3200>>],
    \* "atlanta"
    [key |-> <<97,116,108,97,110,116,97>>,
     avg_price |-> 400000, school |-> 7, type |-> "SFH", sqft_range |-> <<1500, 3000>>]
  >>

AMENITIES_POOL ==
  <<
    \* "Gym", "Swimming Pool", "Parking", "Doorman"
    << <<71,121,109>>,
       <<83,119,105,109,109,105,110,103,32,80,111,111,108>>,
       <<80,97,114,107,105,110,103>>,
       <<68,111,111,114,109,97,110>> >>,
    \* "Garden", "Garage", "Central AC", "Fireplace"
    << <<71,97,114,100,101,110>>,
       <<71,97,114,97,103,101>>,
       <<67,101,110,116,114,97,108,32,65,67>>,
       <<70,105,114,101,112,108,97,99,101>> >>,
    \* "Rooftop Terrace", "Smart Home", "Security System"
    << <<82,111,111,102,116,111,112,32,84,101,114,114,97,99,101>>,
       <<83,109,97,114,116,32,72,111,109,101>>,
       <<83,101,99,117,114,105,116,121,32,83,121,115,116,101,109>> >>,
    \* "Beach Access", "Balcony", "In-Unit Laundry"
    << <<66,101,97,99,104,32,65,99,99,101,115,115>>,
       <<66,97,108,99,111,110,121>>,
       <<73,110,45,85,110,105,116,32,76,97,117,110,100,114,121>> >>,
    \* "Private Dock", "BBQ Area", "Pet Friendly"
    << <<80,114,105,118,97,116,101,32,68,111,99,107>>,
       <<66,66,81,32,65,114,101,97>>,
       <<80,101,116,32,70,114,105,101,110,100,108,121>> >>,
    \* "Home Office", "Solar Panels", "EV Charging"
    << <<72,111,109,101,32,79,102,102,105,99,101>>,
       <<83,111,108,97,114,32,80,97,110,101,108,115>>,
       <<69,86,32,67,104,97,114,103,105,110,103>> >>,
    \* "Community Pool", "Tennis Court", "Clubhouse"
    << <<67,111,109,109,117,110,105,116,121,32,80,111,111,108>>,
       <<84,101,110,110,105,115,32,67,111,117,114,116>>,
       <<67,108,117,98,104,111,117,115,101>> >>,
    \* "Park View", "Concierge", "Fitness Center"
    << <<80,97,114,107,32,86,105,101,119>>,
       <<67,111,110,99,105,101,114,103,101>>,
       <<70,105,116,110,101,115,115,32,67,101,110,116,101,114>> >>
  >>

\* sum(ord(c) * (i + 1) for i, c in enumerate(address.lower()))
RECURSIVE weighted_sum(_, _)
weighted_sum(s, n) == IF n = 0 THEN 0 ELSE weighted_sum(s, n - 1) + s[n] * n

_hash_address(address) == weighted_sum(lower(address), Len(address))

\* a faulty scan_keys: the last key of the table that occurs in the address
RECURSIVE scan_keys_last(_, _, _)
scan_keys_last(table, address_lower, i) ==
  IF i > Len(table) THEN 0
  ELSE LET later == scan_keys_last(table, address_lower, i + 1)
       IN  IF later # 0 THEN later
           ELSE IF str_in(table[i].key, address_lower) THEN i
           ELSE 0

\* for city in table.keys(): if city in address_lower: return city
\* (a dict iterates in insertion order).  The result is the position of the
\* key in the table; 0 stands for None.
RECURSIVE scan_keys(_, _, _)
scan_keys(table, address_lower, i) ==
  IF i > Len(table) THEN 0
  ELSE IF str_in(table[i].key, address_lower) THEN i
  ELSE scan_keys(table, address_lower, i + 1)

_extract_city_from_address(address) == scan_keys(CITY_DATA, lower(address), 1)

\* int(base_price * (0.8 + (addr_hash % 40) / 100) * (size_sqft / 1500)).
\* The exact value is base_price * (80 + addr_hash % 40) * size_sqft / 150000
\* (every base_price is a multiple of 1000).  The double product is the
\* exact value up to rounding, so int() gives the exact quotient, except that
\* for a whole exact value the product may land just below it: ieee (0 or 1),
\* fixed by the operands alone, is that rounding outcome.
listed_price_of(base_price, addr_hash, size_sqft, ieee) ==
  LET num == (base_price \div 1000) * (80 + (addr_hash % 40)) * size_sqft
  IN  IF num % 150 = 0 THEN (num \div 150) - ieee ELSE num \div 150

\* a faulty picked: the two bundles are taken whole
picked_whole(pool, addr_hash) ==
  pool[(addr_hash % Len(pool)) + 1] \o pool[((addr_hash + 3) % Len(pool)) + 1]

\* amenity_set_1[:2] + amenity_set_2[:2], for the bundles
\* pool[addr_hash % len(pool)] and pool[(addr_hash + 3) % len(pool)]
picked(pool, addr_hash) ==
  LET amenity_set_1 == pool[(addr_hash % Len(pool)) + 1]
      amenity_set_2 == pool[((addr_hash + 3) % Len(pool)) + 1]
  IN  first_n(amenity_set_1, 2) \o first_n(amenity_set_2, 2)

\* amenities = list(set(amenity_set_1[:2] + amenity_set_2[:2]))
amenities_of(pool, addr_hash, pid) == list_set(picked(pool, addr_hash), pid)

\* a faulty any_pool: only the first amenity of the list is inspected
any_pool_first_only(amenities) ==
  amenities # <<>> /\ str_in(<<112,111,111,108>>, lower(amenities[1]))

\* any("pool" in a.lower() for a in amenities)
any_pool(amenities) ==
  \E i \in DOMAIN amenities : str_in(<<112,111,111,108>>, lower(amenities[i]))

\* any("garage" in a.lower() or "parking" in a.lower() for a in amenities)
any_garage(amenities) ==
  \E i \in DOMAIN amenities :
    \/ str_in(<<103,97,114,97,103,101>>, lower(amenities[i]))
    \/ str_in(<<112,97,114,107,105,110,103>>, lower(amenities[i]))

\* the title templates of the backend, for a number of bedrooms
condo_titles(bedrooms) ==
  << str(bedrooms) \o <<32,66,82,32,67,111,110,100,111>>,                  \* "{b} BR Condo"
     <<77,111,100,101,114,110,32>> \o str(bedrooms)
       \o <<32,66,101,100,114,111,111,109,32,65,112,97,114,116,109,101,110,116>>,
                                                                            \* "Modern {b} Bedroom Apartment"
     <<76,117,120,117,114,121,32>> \o str(bedrooms) \o <<66,82,32,85,110,105,116>>,
                                                                            \* "Luxury {b}BR Unit"
     <<83,116,121,108,105,115,104,32>> \o str(bedrooms)
       \o <<32,66,101,100,32,67,111,110,100,111>> >>                        \* "Stylish {b} Bed Condo"

sfh_titles(bedrooms) ==
  << str(bedrooms)
       \o <<32,66,82,32,83,105,110,103,108,101,32,70,97,109,105,108,121,32,72,111,109,101>>,
                                                                            \* "{b} BR Single Family Home"
     <<66,101,97,117,116,105,102,117,108,32>> \o str(bedrooms)
       \o <<32,66,101,100,114,111,111,109,32,72,111,117,115,101>>,          \* "Beautiful {b} Bedroom House"
     <<83,112,97,99,105,111,117,115,32>> \o str(bedrooms) \o <<66,82,32,72,111,109,101>>,
                                                                            \* "Spacious {b}BR Home"
     <<67,104,97,114,109,105,110,103,32>> \o str(bedrooms)
       \o <<32,66,101,100,32,72,111,117,115,101>> >>                        \* "Charming {b} Bed House"

\* ", ".join(part.strip() for part in address.split(",")[-2:]) when the
\* address holds a comma, the address itself otherwise
location_of(address) ==
  LET parts == IF str_in(<<44>>, address) THEN last_n(split(address, 44), 2)
               ELSE <<address>>
  IN  join(<<44, 32>>, [i \in DOMAIN parts |-> strip(parts[i])])

\* the body of generate_mock_property after the emptiness check
mock_property(address_in, pid, ieee) ==
  LET address     == strip(address_in)
      addr_hash   == _hash_address(address)
      city        == _extract_city_from_address(address)
      base_price  == IF city # 0 THEN CITY_DATA[city].avg_price ELSE 500000
      school_base == IF city # 0 THEN CITY_DATA[city].school ELSE 7
      property_type ==
        IF city # 0 THEN CITY_DATA[city].type
        ELSE IF addr_hash % 2 = 0 THEN "SFH" ELSE "Condo"
      sqft_min    == IF city # 0 THEN CITY_DATA[city].sqft_range[1] ELSE 1000
      sqft_max    == IF city # 0 THEN CITY_DATA[city].sqft_range[2] ELSE 2500
      size_sqft   == sqft_min + (addr_hash % (sqft_max - sqft_min))
      bedrooms    == 1 + (addr_hash % 5)
      bathrooms   == 1 + (addr_hash % 4)
      year_base   == 1960 + (addr_hash % 60)
      year_built  == min(2024, year_base)
      amenities   == amenities_of(AMENITIES_POOL, addr_hash, pid)
      titles      == IF property_type = "Condo" THEN condo_titles(bedrooms)
                     ELSE sfh_titles(bedrooms)
  IN  [ id            |-> addr_hash % 100000,
        address       |-> address,
        title         |-> titles[(addr_hash % Len(titles)) + 1],
        listed_price  |-> listed_price_of(base_price, addr_hash, size_sqft, ieee),
        location      |-> location_of(address),
        size_sqft     |-> size_sqft,
        amenities     |-> amenities,
        image_url     |-> MOCK_IMAGES[(addr_hash % Len(MOCK_IMAGES)) + 1],
        property_type |-> property_type,
        lot_area      |-> IF property_type = "SFH" THEN size_sqft ELSE 0,
        building_area |-> IF property_type = "Condo" THEN size_sqft ELSE 0,
        bedrooms      |-> bedrooms,
        bathrooms     |-> bathrooms,
        year_built    |-> year_built,
        has_pool      |-> any_pool(amenities),
        has_garage    |-> any_garage(amenities),
        school_rating |-> max(1, min(10, school_base + (addr_hash % 3) - 1)) ]

\* generate_mock_property(address): ValueError on an empty or blank address
generate_mock_property(address, pid, ieee) ==
  IF address = <<>> \/ strip(address) = <<>>
  THEN Raise("ValueError")
  ELSE Return(mock_property(address, pid, ieee))

(***************************************************************************)
(* api/compare-addresses.py: the serverless function's own copy of the     *)
(* reference tables, the generator and the valuation.                      *)
(***************************************************************************)
api_MOCK_IMAGES ==
  <<
    "https://images.pexels.com/photos/106399/pexels-photo-106399.jpeg",
    "https://images.pexels.com/photos/259588/pexels-photo-259588.jpeg",
    "https://images.pexels.com/photos/323780/pexels-photo-323780.jpeg",
    "https://images.pexels.com/photos/271624/pexels-photo-271624.jpeg",
    "https://images.pexels.com/photos/534151/pexels-photo-534151.jpeg"
  >>

api_CITY_DATA ==
  <<
    \* "new york"
    [key |-> <<110,101,119,32,121,111,114,107>>,
     avg_price |-> 850000, school |-> 8, type |-> "Condo", sqft_range |-> <<800, 2000>>],
    \* "manhattan"
    [key |-> <<109,97,110,104,97,116,116,97,110>>,
     avg_price |-> 1200000, school |-> 9, type |-> "Condo", sqft_range |-> <<600, 1800>>],
    \* "brooklyn"
    [key |-> <<98,114,111,111,107,108,121,110>>,
     avg_price |-> 750000, school |-> 7, type |-> "Condo", sqft_range |-> <<900, 2200>>],
    \* "los angeles"
    [key |-> <<108,111,115,32,97,110,103,101,108,101,115>>,
     avg_price |-> 950000, school |-> 7, type |-> "SFH", sqft_range |-> <<1500, 3500>>],
    \* "san francisco"
    [key |-> <<115,97,110,32,102,114,97,110,99,105,115,99,111>>,
     avg_price |-> 1400000, school |-> 9, type |-> "Condo", sqft_range |-> <<800, 2000>>],
    \* "miami"
    [key |-> <<109,105,97,109,105>>,
     avg_price |-> 550000, school |-> 6, type |-> "Condo", sqft_range |-> <<1000, 2500>>],
    \* "chicago"
    [key |-> <<99,104,105,99,97,103,111>>,
     avg_price |-> 450000, school |-> 7, type |-> "Condo", sqft_range |-> <<1000, 2200>>],
    \* "boston"
    [key |-> <<98,111,115,116,111,110>>,
     avg_price |-> 750000, school |-> 9, type |-> "Condo", sqft_range |-> <<800, 1800>>],
    \* "seattle"
    [key |-> <<115,101,97,116,116,108,101>>,
     avg_price |-> 800000, school |-> 8, type |-> "SFH", sqft_range |-> <<1200, 2800>>],
    \* "austin"
    [key |-> <<97,117,115,116,105,110>>,
     avg_price |-> 550000, school |-> 8, type |-> "SFH", sqft_range |-> <<1500, 3000>>],
    \* "dallas"
    [key |-> <<100,97,108,108,97,115>>,
     avg_price |-> 450000, school |-> 7, type |-> "SFH", sqft_range |-> <<1800, 3500>>],
    \* "denver"
    [key |-> <<100,101,110,118,101,114>>,
     avg_price |-> 600000, school |-> 8, type |-> "SFH", sqft_range |-> <<1400, 2800>>],
    \* "phoenix"
    [key |-> <<112,104,111,101,110,105,120>>,
     avg_price |-> 450000, school |-> 6, type |-> "SFH", sqft_range |-> <<1600, 3200>>],
    \* "atlanta"
    [key |-> <<97,116,108,97,110,116,97>>,
     avg_price |-> 400000, school |-> 7, type |-> "SFH", sqft_range |-> <<1500, 3000>>]
  >>

api_AMENITIES_POOL ==
  <<
    \* "Gym", "Swimming Pool", "Parking", "Doorman"
    << <<71,121,109>>,
       <<83,119,105,109,109,105,110,103,32,80,111,111,108>>,
       <<80,97,114,107,105,110,103>>,
       <<68,111,111,114,109,97,110>> >>,
    \* "Garden", "Garage", "Central AC", "Fireplace"
    << <<71,97,114,100,101,110>>,
       <<71,97,114,97,103,101>>,
       <<67,101,110,116,114,97,108,32,65,67>>,
       <<70,105,114,101,112,108,97,99,101>> >>,
    \* "Rooftop Terrace", "Smart Home", "Security System"
    << <<82,111,111,102,116,111,112,32,84,101,114,114,97,99,101>>,
       <<83,109,97,114,116,32,72,111,109,101>>,
       <<83,101,99,117,114,105,116,121,32,83,121,115,116,101,109>> >>,
    \* "Beach Access", "Balcony", "In-Unit Laundry"
    << <<66,101,97,99,104,32,65,99,99,101,115,115>>,
       <<66,97,108,99,111,110,121>>,
       <<73,110,45,85,110,105,116,32,76,97,117,110,100,114,121>> >>,
    \* "Private Dock", "BBQ Area", "Pet Friendly"
    << <<80,114,105,118,97,116,101,32,68,111,99,107>>,
       <<66,66,81,32,65,114,101,97>>,
       <<80,101,116,32,70,114,105,101,110,100,108,121>> >>,
    \* "Home Office", "Solar Panels", "EV Charging"
    << <<72,111,109,101,32,79,102,102,105,99,101>>,
       <<83,111,108,97,114,32,80,97,110,101,108,115>>,
       <<69,86,32,67,104,97,114,103,105,110,103>> >>,
    \* "Community Pool", "Tennis Court", "Clubhouse"
    << <<67,111,109,109,117,110,105,116,121,32,80,111,111,108>>,
       <<84,101,110,110,105,115,32,67,111,117,114,116>>,
       <<67,108,117,98,104,111,117,115,101>> >>
  >>

api_hash_address(address) == weighted_sum(lower(address), Len(address))

_extract_city(address) == scan_keys(api_CITY_DATA, lower(address), 1)

\* the two title templates of the serverless function
api_condo_titles(bedrooms) ==
  << str(bedrooms) \o <<32,66,82,32,67,111,110,100,111>>,                  \* "{b} BR Condo"
     <<77,111,100,101,114,110,32>> \o str(bedrooms)
       \o <<32,66,101,100,114,111,111,109,32,65,112,97,114,116,109,101,110,116>> >>
                                                                            \* "Modern {b} Bedroom Apartment"

api_sfh_titles(bedrooms) ==
  << str(bedrooms)
       \o <<32,66,82,32,83,105,110,103,108,101,32,70,97,109,105,108,121,32,72,111,109,101>>,
                                                                            \* "{b} BR Single Family Home"
     <<66,101,97,117,116,105,102,117,108,32>> \o str(bedrooms)
       \o <<32,66,101,100,114,111,111,109,32,72,111,117,115,101>> >>        \* "Beautiful {b} Bedroom House"

\* generate_mock_property(address) of the serverless function: no emptiness
\* check, every string yields a record
api_generate_mock_property(address_in, pid, ieee) ==
  LET address     == strip(address_in)
      addr_hash   == api_hash_address(address)
      city        == _extract_city(address)
      base_price  == IF city # 0 THEN api_CITY_DATA[city].avg_price ELSE 500000
      school_base == IF city # 0 THEN api_CITY_DATA[city].school ELSE 7
      property_type ==
        IF city # 0 THEN api_CITY_DATA[city].type
        ELSE IF addr_hash % 2 = 0 THEN "SFH" ELSE "Condo"
      sqft_min    == IF city # 0 THEN api_CITY_DATA[city].sqft_range[1] ELSE 1000
      sqft_max    == IF city # 0 THEN api_CITY_DATA[city].sqft_range[2] ELSE 2500
      size_sqft   == sqft_min + (addr_hash % (sqft_max - sqft_min))
      bedrooms    == 1 + (addr_hash % 5)
      bathrooms   == 1 + (addr_hash % 4)
      year_built  == min(2024, 1960 + (addr_hash % 60))
      amenities   == amenities_of(api_AMENITIES_POOL, addr_hash, pid)
      titles      == IF property_type = "Condo" THEN api_condo_titles(bedrooms)
                     ELSE api_sfh_titles(bedrooms)
  IN  Return(
      [ id            |-> addr_hash % 100000,
        address       |-> address,
        title         |-> titles[(addr_hash % Len(titles)) + 1],
        listed_price  |-> listed_price_of(base_price, addr_hash, size_sqft, ieee),
        location      |-> location_of(address),
        size_sqft     |-> size_sqft,
        amenities     |-> amenities,
        image_url     |-> api_MOCK_IMAGES[(addr_hash % Len(api_MOCK_IMAGES)) + 1],
        property_type |-> property_type,
        lot_area      |-> IF property_type = "SFH" THEN size_sqft ELSE 0,
        building_area |-> IF property_type = "Condo" THEN size_sqft ELSE 0,
        bedrooms      |-> bedrooms,
        bathrooms     |-> bathrooms,
        year_built    |-> year_built,
        has_pool      |-> any_pool(amenities),
        has_garage    |-> any_garage(amenities),
        school_rating |-> max(1, min(10, school_base + (addr_hash % 3) - 1)) ])

\* predict_price(f) of the serverless function: no check of property_type,
\* every value other than "SFH" is priced as a Condo
predict_price(f) ==
  LET property_type == get(f, "property_type", None)
      bedrooms      == get(f, "bedrooms", 0)
      bathrooms     == get(f, "bathrooms", 0)
      year_built    == get(f, "year_built", 1900)
      has_pool      == get(f, "has_pool", FALSE)
      has_garage    == get(f, "has_garage", FALSE)
      school_rating == get(f, "school_rating", 5)
      area          == IF property_type = "SFH" THEN get(f, "lot_area", 0)
                       ELSE get(f, "building_area", 0)
      area_component == IF property_type = "SFH" THEN area * 12 ELSE area * 220
      type_bias     == IF property_type = "SFH" THEN 65000 ELSE 35000
      base          == 75000
      bed_component == bedrooms * 32500
      bath_component == bathrooms * 27500
      school_component == max(1, min(10, school_rating)) * 11500
      age           == max(0, 2025 - year_built)
      age_penalty   == age * 900
      amenities     == (IF has_pool THEN 18000 ELSE 0) + (IF has_garage THEN 12500 ELSE 0)
      price         == base + type_bias + area_component + bed_component
                       + bath_component + school_component + amenities - age_penalty
  IN  Return(max(25000, price))

(***************************************************************************)
(* backend/main.py: the valuation and the response model.                  *)
(***************************************************************************)
\* a faulty age_of: the age is counted in months
age_in_months(year_built) == max(0, (2025 - year_built) * 12)

\* a faulty age_of: the age is not clamped at 0
age_unclamped(year_built) == 2025 - year_built

\* a faulty rooms_component: the two coefficients are exchanged
rooms_swapped(bedrooms, bathrooms) == bedrooms * 27500 + bathrooms * 32500

\* a faulty floored: the price is returned without the floor
unfloored(price) == price

\* age = max(0, current_year - year_built), with current_year = 2025
age_of(year_built) == max(0, 2025 - year_built)

\* bed_component + bath_component
rooms_component(bedrooms, bathrooms) == bedrooms * 32500 + bathrooms * 27500

\* return max(25_000.0, round(price, 2)): price is a whole number
floored(price) == max(25000, price)

\* ComplexTrapModelRenamed._predict_one(f): ValueError unless property_type
\* is "SFH" or "Condo"
_predict_one(f) ==
  LET property_type == get(f, "property_type", None)
      bedrooms      == get(f, "bedrooms", 0)
      bathrooms     == get(f, "bathrooms", 0)
      year_built    == get(f, "year_built", 1900)
      has_pool      == get(f, "has_pool", FALSE)
      has_garage    == get(f, "has_garage", FALSE)
      school_rating == get(f, "school_rating", 5)
      area          == IF property_type = "SFH" THEN get(f, "lot_area", 0)
                       ELSE get(f, "building_area", 0)
      area_component == IF property_type = "SFH" THEN area * 12 ELSE area * 220
      type_bias     == IF property_type = "SFH" THEN 65000 ELSE 35000
      base          == 75000
      school_component == max(1, min(10, school_rating)) * 11500
      age_penalty   == age_of(year_built) * 900
      amenities     == (IF has_pool THEN 18000 ELSE 0) + (IF has_garage THEN 12500 ELSE 0)
      price         == base + type_bias + area_component + rooms_component(bedrooms, bathrooms)
                       + school_component + amenities - age_penalty
  IN  IF property_type \notin {"SFH", "Condo"} THEN Raise("ValueError")
      ELSE Return(floored(price))

\* get_model_input(prop) (backend/data_loader.py): the nine model fields
get_model_input(prop) ==
  [ property_type |-> prop.property_type,
    lot_area      |-> prop.lot_area,
    building_area |-> prop.building_area,
    bedrooms      |-> prop.bedrooms,
    bathrooms     |-> prop.bathrooms,
    year_built    |-> prop.year_built,
    has_pool      |-> prop.has_pool,
    has_garage    |-> prop.has_garage,
    school_rating |-> prop.school_rating ]

\* PredictionRequest: the constraints a POST /predict payload must satisfy
\* (lot_area and building_area default to 0, the other fields are required)
PredictionRequest(f) ==
  /\ {"property_type", "bedrooms", "bathrooms", "year_built", "has_pool", "has_garage",
      "school_rating"} \subseteq DOMAIN f
  /\ f.property_type \in {"SFH", "Condo"}
  /\ get(f, "lot_area", 0) >= 0
  /\ get(f, "building_area", 0) >= 0
  /\ f.bedrooms >= 0
  /\ f.bathrooms >= 0
  /\ f.year_built >= 1600 /\ f.year_built <= 2100
  /\ f.school_rating >= 1 /\ f.school_rating <= 10

\* payload.model_dump(): the nine fields, defaults filled in
model_dump(f) ==
  [ property_type |-> f.property_type,
    lot_area      |-> get(f, "lot_area", 0),
    building_area |-> get(f, "building_area", 0),
    bedrooms      |-> f.bedrooms,
    bathrooms     |-> f.bathrooms,
    year_built    |-> f.year_built,
    has_pool      |-> f.has_pool,
    has_garage    |-> f.has_garage,
    school_rating |-> f.school_rating ]

\* PropertyResponse(**prop, predicted_price=predicted): the declared fields
\* are kept (address defaults to None), lot_area and building_area are not
\* fields of the response model and are dropped
PropertyResponse(prop, predicted) ==
  [ id            |-> prop.id,
    title         |-> prop.title,
    listed_price  |-> prop.listed_price,
    location      |-> prop.location,
    size_sqft     |-> prop.size_sqft,
    amenities     |-> prop.amenities,
    image_url     |-> prop.image_url,
    property_type |-> prop.property_type,
    bedrooms      |-> prop.bedrooms,
    bathrooms     |-> prop.bathrooms,
    year_built    |-> prop.year_built,
    has_pool      |-> prop.has_pool,
    has_garage    |-> prop.has_garage,
    school_rating |-> prop.school_rating,
    predicted_price |-> predicted,
    address       |-> get(prop, "address", <<>>) ]

(***************************************************************************)
(* backend/data_loader.py: the catalog normalizer.                         *)
(***************************************************************************)
\* a dict with no keys: the default of features_by_id.get / images_by_id.get
empty_dict == [k \in {} |-> None]

\* "apartment", "condo", "studio", "penthouse", "flat", "unit"
condo_keywords ==
  << <<97,112,97,114,116,109,101,110,116>>, <<99,111,110,100,111>>,
     <<115,116,117,100,105,111>>, <<112,101,110,116,104,111,117,115,101>>,
     <<102,108,97,116>>, <<117,110,105,116>> >>

\* "villa", "house", "townhouse", "duplex", "home", "cottage", "bungalow"
sfh_keywords ==
  << <<118,105,108,108,97>>, <<104,111,117,115,101>>,
     <<116,111,119,110,104,111,117,115,101>>, <<100,117,112,108,101,120>>,
     <<104,111,109,101>>, <<99,111,116,116,97,103,101>>,
     <<98,117,110,103,97,108,111,119>> >>

\* for keyword in keywords: if keyword in text: return True
any_keyword(keywords, text) ==
  \E i \in DOMAIN keywords : str_in(keywords[i], text)

\* a faulty _infer_property_type: the house keywords are tried first
infer_sfh_first(title) ==
  LET title_lower == lower(title)
  IN  IF any_keyword(sfh_keywords, title_lower) THEN "SFH"
      ELSE "Condo"

_infer_property_type(title) ==
  LET title_lower == lower(title)
  IN  IF any_keyword(condo_keywords, title_lower) THEN "Condo"
      ELSE IF any_keyword(sfh_keywords, title_lower) THEN "SFH"
      ELSE "Condo"

\* pool_keywords = ["pool", "swimming"]
_infer_has_pool(amenities) ==
  \E i \in DOMAIN amenities :
    any_keyword(<< <<112,111,111,108>>, <<115,119,105,109,109,105,110,103>> >>,
                lower(amenities[i]))

\* garage_keywords = ["garage", "parking", "carport"]
_infer_has_garage(amenities) ==
  \E i \in DOMAIN amenities :
    any_keyword(<< <<103,97,114,97,103,101>>, <<112,97,114,107,105,110,103>>,
                   <<99,97,114,112,111,114,116>> >>,
                lower(amenities[i]))

\* a faulty _generate_year_built: a value at a threshold earns the higher bonus
year_built_inclusive(prop_id, size_sqft, price) ==
  LET by_price  == IF price >= 1000000 THEN 35
                   ELSE IF price >= 700000 THEN 25
                   ELSE IF price >= 400000 THEN 15
                   ELSE 0
      by_size   == IF size_sqft >= 2500 THEN 10
                   ELSE IF size_sqft >= 1500 THEN 5
                   ELSE 0
  IN  min(2024, max(1950, 1970 + by_price + by_size + ((prop_id * 3) % 15)))

_generate_year_built(prop_id, size_sqft, price) ==
  LET base_year == 1970
      by_price  == IF price > 1000000 THEN 35
                   ELSE IF price > 700000 THEN 25
                   ELSE IF price > 400000 THEN 15
                   ELSE 0
      by_size   == IF size_sqft > 2500 THEN 10
                   ELSE IF size_sqft > 1500 THEN 5
                   ELSE 0
      variance  == (prop_id * 3) % 15
      year      == base_year + by_price + by_size + variance
  IN  min(2024, max(1950, year))

\* the normalizer's own city -> rating table, in declaration order
city_ratings ==
  << [key |-> <<110,101,119,32,121,111,114,107>>, rating |-> 8],                 \* "new york"
     [key |-> <<115,97,110,32,102,114,97,110,99,105,115,99,111>>, rating |-> 9], \* "san francisco"
     [key |-> <<98,111,115,116,111,110>>, rating |-> 9],                         \* "boston"
     [key |-> <<115,101,97,116,116,108,101>>, rating |-> 8],                     \* "seattle"
     [key |-> <<108,111,115,32,97,110,103,101,108,101,115>>, rating |-> 7],      \* "los angeles"
     [key |-> <<99,104,105,99,97,103,111>>, rating |-> 7],                       \* "chicago"
     [key |-> <<109,105,97,109,105>>, rating |-> 6],                             \* "miami"
     [key |-> <<100,97,108,108,97,115>>, rating |-> 7],                          \* "dallas"
     [key |-> <<97,117,115,116,105,110>>, rating |-> 8] >>                       \* "austin"

_generate_school_rating(location, prop_id) ==
  LET city        == scan_keys(city_ratings, lower(location), 1)
      base_rating == IF city # 0 THEN city_ratings[city].rating ELSE 6
      variance    == (prop_id % 3) - 1
  IN  min(10, max(1, base_rating + variance))

\* {row["id"]: row for row in table}.get(prop_id, {}): the last row of the
\* table with that id, the empty dict when there is none
by_id(table, prop_id) ==
  LET hits == {i \in DOMAIN table : table[i].id = prop_id}
  IN  IF hits = {} THEN empty_dict
      ELSE table[CHOOSE i \in hits : \A j \in hits : j <= i]

\* the record load_all_properties builds for one row of the basic table
merged(prop, features, images) ==
  LET prop_id   == prop.id
      feat      == by_id(features, prop_id)
      img       == by_id(images, prop_id)
      title     == get(prop, "title", <<>>)
      location  == get(prop, "location", <<>>)
      price     == get(prop, "price", 0)
      size_sqft == get(feat, "size_sqft", 1000)
      amenities == get(feat, "amenities", <<>>)
      property_type == _infer_property_type(title)
  IN  [ id            |-> prop_id,
        title         |-> title,
        listed_price  |-> price,
        location      |-> location,
        size_sqft     |-> size_sqft,
        amenities     |-> amenities,
        image_url     |-> get(img, "image_url", ""),
        property_type |-> property_type,
        lot_area      |-> IF property_type = "SFH" THEN size_sqft ELSE 0,
        building_area |-> IF property_type = "Condo" THEN size_sqft ELSE 0,
        bedrooms      |-> get(feat, "bedrooms", 2),
        bathrooms     |-> get(feat, "bathrooms", 1),
        year_built    |-> _generate_year_built(prop_id, size_sqft, price),
        has_pool      |-> _infer_has_pool(amenities),
        has_garage    |-> _infer_has_garage(amenities),
        school_rating |-> _generate_school_rating(location, prop_id) ]

\* a faulty load_all_properties: basic rows without a features row are dropped
load_inner_join(basic, features, images) ==
  LET Joined(prop) == \E i \in DOMAIN features : features[i].id = prop.id
      kept == SelectSeq(basic, Joined)
  IN  Return([i \in DOMAIN kept |-> merged(kept[i], features, images)])

\* load_all_properties(), on the contents of the three JSON files: one
\* record per row of the basic table, in its order
load_all_properties(basic, features, images) ==
  Return([i \in DOMAIN basic |-> merged(basic[i], features, images)])

\* dict | None: a sequence holding the record, empty for None
Some(prop) == <<prop>>
Nothing == <<>>

\* a faulty first_with_id: the last record with the id
RECURSIVE last_with_id(_, _)
last_with_id(properties, prop_id) ==
  IF properties = <<>> THEN Nothing
  ELSE LET later == last_with_id(Tail(properties), prop_id)
       IN  IF later # Nothing THEN later
           ELSE IF Head(properties).id = prop_id THEN Some(Head(properties))
           ELSE Nothing

\* for prop in properties: if prop["id"] == prop_id: return prop
RECURSIVE first_with_id(_, _)
first_with_id(properties, prop_id) ==
  IF properties = <<>> THEN Nothing
  ELSE IF Head(properties).id = prop_id THEN Some(Head(properties))
  ELSE first_with_id(Tail(properties), prop_id)

\* get_property_by_id(prop_id), on the contents of the three JSON files
get_property_by_id(prop_id, basic, features, images) ==
  Return(first_with_id(load_all_properties(basic, features, images).value, prop_id))

\* a faulty searchable: the title alone
searchable_title_only(prop) == lower(prop.title)

\* f"{prop['title']} {prop['location']}".lower()
searchable(prop) == lower(prop.title \o <<32>> \o prop.location)

\* for prop in properties: if query_lower in searchable: results.append(prop)
RECURSIVE matching(_, _)
matching(properties, query_lower) ==
  IF properties = <<>> THEN <<>>
  ELSE (IF str_in(query_lower, searchable(Head(properties)))
        THEN <<Head(properties)>> ELSE <<>>)
       \o matching(Tail(properties), query_lower)

\* search_properties(query), on the contents of the three JSON files
search_properties(query, basic, features, images) ==
  LET properties  == load_all_properties(basic, features, images).value
      query_lower == strip(lower(query))
  IN  IF query_lower = <<>> THEN Return(properties)
      ELSE Return(matching(properties, query_lower))

(***************************************************************************)
(* Request handlers.  An HTTP error response is the outcome                *)
(* Raise("HTTP <code>").                                                   *)
(***************************************************************************)
\* model.predict(get_model_input(prop)) followed by
\* PropertyResponse(**prop, predicted_price=predicted); an exception of the
\* model is not caught by the handlers (500)
priced_response(prop) ==
  LET predicted == _predict_one(get_model_input(prop))
  IN  IF predicted.status # "ok" THEN Raise("HTTP 500")
      ELSE Return(PropertyResponse(prop, predicted.value))

\* GET /lookup-address (backend/main.py): address is a query parameter with
\* min_length=1; a ValueError of the generator is answered with 400
lookup_address(address, pid, rounding) ==
  IF Len(address) < 1 THEN Raise("HTTP 422")
  ELSE LET prop == generate_mock_property(address, pid, rounding)
       IN  IF prop.status = "ValueError" THEN Raise("HTTP 400")
           ELSE priced_response(prop.value)

\* POST /compare-addresses (backend/main.py)
compare_by_addresses(a1, a2, pid, rounding_1, rounding_2) ==
  IF Len(a1) < 1 \/ Len(a2) < 1 THEN Raise("HTTP 422")
  ELSE LET prop1 == generate_mock_property(a1, pid, rounding_1)
           prop2 == generate_mock_property(a2, pid, rounding_2)
       IN  IF prop1.status = "ValueError" \/ prop2.status = "ValueError"
           THEN Raise("HTTP 400")
           ELSE LET r1 == priced_response(prop1.value)
                    r2 == priced_response(prop2.value)
                IN  IF r1.status # "ok" \/ r2.status # "ok" THEN Raise("HTTP 500")
                    ELSE Return([property_1 |-> r1.value, property_2 |-> r2.value])

\* the loop of GET /properties (backend/main.py): every record with its
\* predicted price
RECURSIVE priced_list(_)
priced_list(props) ==
  IF props = <<>> THEN Return(<<>>)
  ELSE LET head == priced_response(Head(props))
           rest == priced_list(Tail(props))
       IN  IF head.status # "ok" THEN head
           ELSE IF rest.status # "ok" THEN rest
           ELSE Return(<<head.value>> \o rest.value)

\* GET /properties?q= (backend/main.py): search_properties(q) for a
\* non-empty q, load_all_properties() otherwise
list_properties(q, basic_rows, features_rows, images_rows) ==
  IF q # <<>>
  THEN priced_list(search_properties(q, basic_rows, features_rows, images_rows).value)
  ELSE priced_list(load_all_properties(basic_rows, features_rows, images_rows).value)

\* GET /properties/{property_id} (backend/main.py): 404 when
\* get_property_by_id returns None
get_property(property_id, basic_rows, features_rows, images_rows) ==
  LET prop == get_property_by_id(property_id, basic_rows, features_rows, images_rows).value
  IN  IF prop = Nothing THEN Raise("HTTP 404")
      ELSE priced_response(prop[1])

\* POST /compare (backend/main.py): 404 when either id is unknown, before
\* any prediction
compare_properties(property_id_1, property_id_2, basic_rows, features_rows, images_rows) ==
  LET prop1 == get_property_by_id(property_id_1, basic_rows, features_rows, images_rows).value
      prop2 == get_property_by_id(property_id_2, basic_rows, features_rows, images_rows).value
  IN  IF prop1 = Nothing THEN Raise("HTTP 404")
      ELSE IF prop2 = Nothing THEN Raise("HTTP 404")
      ELSE LET r1 == priced_response(prop1[1])
               r2 == priced_response(prop2[1])
           IN  IF r1.status # "ok" \/ r2.status # "ok" THEN Raise("HTTP 500")
               ELSE Return([property_1 |-> r1.value, property_2 |-> r2.value])

\* POST /predict (backend/main.py): the payload is validated as a
\* PredictionRequest (422 otherwise) and handed to the model
predict_endpoint(f) ==
  IF ~PredictionRequest(f) THEN Raise("HTTP 422")
  ELSE LET predicted == _predict_one(model_dump(f))
       IN  IF predicted.status # "ok" THEN Raise("HTTP 500")
           ELSE Return([predicted_price |-> predicted.value])

\* a faulty with_price: the listed price is overwritten as well
with_price_overwriting(prop, predicted) ==
  [k \in DOMAIN prop \cup {"predicted_price"} |->
     IF k \in {"predicted_price", "listed_price"} THEN predicted ELSE prop[k]]

\* prop['predicted_price'] = predict_price(prop) (api/compare-addresses.py)
with_price(prop, predicted) ==
  [k \in DOMAIN prop \cup {"predicted_price"} |->
     IF k = "predicted_price" THEN predicted ELSE prop[k]]

\* handler.do_POST (api/compare-addresses.py): both addresses are trimmed
\* and must be non-empty (400); the two records carry their predicted price
do_POST(a1, a2, pid, rounding_1, rounding_2) ==
  LET addr_1 == strip(a1)
      addr_2 == strip(a2)
  IN  IF addr_1 = <<>> \/ addr_2 = <<>> THEN Raise("HTTP 400")
      ELSE LET prop1 == api_generate_mock_property(addr_1, pid, rounding_1).value
               prop2 == api_generate_mock_property(addr_2, pid, rounding_2).value
           IN  Return([property_1 |-> with_price(prop1, predict_price(prop1).value),
                       property_2 |-> with_price(prop2, predict_price(prop2).value)])

(***************************************************************************)
(* The service as a state machine.  A behaviour serves one request input   *)
(* (an address pair, the contents of the three JSON tables, or a feature   *)
(* payload); each step is one call of a function or handler on it, served  *)
(* by some process.  The code keeps no state between calls: the state is   *)
(* the input and the outcome of the last call.                             *)
(***************************************************************************)
VARIABLES
  kind,        \* "address", "tables" or "features": what the caller supplies
  address_1,   \* the address (first address of a comparison)
  address_2,   \* the second address of a comparison
  ieee,        \* rounding outcome of the listed-price product for address_1
  basic,       \* properties_basic.json
  features,    \* properties_features.json
  images,      \* properties_images.json
  payload,     \* a feature set supplied directly to the valuation
  payload_2,   \* a second feature set supplied directly to the valuation
  workers,     \* the request each concurrent worker has in flight
  cur          \* the last call served in sequence, and its outcome

vars == <<kind, address_1, address_2, ieee, basic, features, images,
          payload, payload_2, workers, cur>>

\* what the callers supply and the files hold
request == <<kind, address_1, address_2, ieee, basic, features, images,
             payload, payload_2>>

input == <<request, workers>>

\* a call: the function, the process that served it, its argument where the
\* caller chose one, and its outcome
Call(fn, pid, arg, outcome) ==
  [fn |-> fn, pid |-> pid, arg |-> arg, status |-> outcome.status, value |-> outcome.value]

NoCall == [fn |-> "none", pid |-> 0, arg |-> None, status |-> "none", value |-> None]

Workers == 1..NumWorkers

\* the frame of a worker: the handler it runs, where it stands in it (pc),
\* the argument, the locals of the handler and its outcome
IdleFrame ==
  [ pc |-> "idle", fn |-> "none", arg |-> None, tables |-> None,
    prop1 |-> None, prop2 |-> None, out |-> None ]

AllIdle == [w \in Workers |-> IdleFrame]

Seeds == 0..(NumSeeds - 1)

(***************************************************************************)
(* Inputs.                                                                 *)
(***************************************************************************)
\* " ", "Manhattan", "new york", "7 Oak St, Reno", ", NV"
Fragments ==
  { <<32>>,
    <<77,97,110,104,97,116,116,97,110>>,
    <<110,101,119,32,121,111,114,107>>,
    <<55,32,79,97,107,32,83,116,44,32,82,101,110,111>>,
    <<44,32,78,86>> }

RECURSIVE Concatenations(_)
Concatenations(n) ==
  IF n = 0 THEN {<<>>}
  ELSE LET shorter == Concatenations(n - 1)
       IN  shorter \cup {a \o f : a \in shorter, f \in Fragments}

Addresses == Concatenations(MaxParts)

\* "1 Elm St" and the empty string
SecondAddresses ==
  { <<49,32,69,108,109,32,83,116>>, <<>> }

\* the listed-price product of an address is a whole number: the only case
\* in which its rounding outcome shows
WholeProduct(address) ==
  api_generate_mock_property(address, 0, 0).value.listed_price
    # api_generate_mock_property(address, 0, 1).value.listed_price

NoTable == <<>>

InitAddress ==
  /\ kind = "address"
  /\ address_1 \in Addresses
  /\ address_2 \in {a \in SecondAddresses : ~WholeProduct(a)}
  /\ ieee \in {0, 1}
  /\ ieee = 1 => WholeProduct(address_1)
  /\ basic = NoTable /\ features = NoTable /\ images = NoTable
  /\ payload = empty_dict /\ payload_2 = empty_dict
  /\ workers = AllIdle
  /\ cur = NoCall

(***************************************************************************)
(* Calls on an address.                                                    *)
(***************************************************************************)
\* generate_mock_property(address_1), backend
Generate(pid) ==
  /\ kind = "address"
  /\ cur' = Call("generate_mock_property", pid, None,
                 generate_mock_property(address_1, pid, ieee))
  /\ UNCHANGED input

\* generate_mock_property(address_1), serverless
ApiGenerate(pid) ==
  /\ kind = "address"
  /\ cur' = Call("api.generate_mock_property", pid, None,
                 api_generate_mock_property(address_1, pid, ieee))
  /\ UNCHANGED input

\* GET /lookup-address?address=address_1, backend
LookupAddress(pid) ==
  /\ kind = "address"
  /\ cur' = Call("lookup_address", pid, None, lookup_address(address_1, pid, ieee))
  /\ UNCHANGED input

\* POST /compare-addresses {address_1, address_2}, backend
CompareByAddresses(pid) ==
  /\ kind = "address"
  /\ cur' = Call("compare_by_addresses", pid, None,
                 compare_by_addresses(address_1, address_2, pid, ieee, 0))
  /\ UNCHANGED input

\* POST /api/compare-addresses {address_1, address_2}, serverless
DoPost(pid) ==
  /\ kind = "address"
  /\ cur' = Call("do_POST", pid, None, do_POST(address_1, address_2, pid, ieee, 0))
  /\ UNCHANGED input

(***************************************************************************)
(* Valuation of a record the last call returned: what every handler does   *)
(* with the records it obtained.                                           *)
(***************************************************************************)
GenerateFns == {"generate_mock_property", "api.generate_mock_property"}

\* the canonical records a call returned
Records(c) ==
  IF c.status # "ok" THEN {}
  ELSE IF c.fn \in GenerateFns THEN {c.value}
  ELSE IF c.fn = "load_all_properties" THEN Range(c.value)
  ELSE {}

\* model.predict(get_model_input(prop)), backend
PredictRecord(prop) ==
  /\ cur' = Call("_predict_one", 0, get_model_input(prop),
                 _predict_one(get_model_input(prop)))
  /\ UNCHANGED input

\* predict_price(prop), serverless
ApiPredictRecord(prop) ==
  /\ cur' = Call("predict_price", 0, prop, predict_price(prop))
  /\ UNCHANGED input

RecordValuation ==
  \/ \E prop \in Records(cur) : PredictRecord(prop)
  \/ \E prop \in Records(cur) : ApiPredictRecord(prop)

AddressCalls ==
  \/ \E pid \in Seeds : Generate(pid)
  \/ \E pid \in Seeds : ApiGenerate(pid)
  \/ \E pid \in Seeds : LookupAddress(pid)
  \/ \E pid \in Seeds : CompareByAddresses(pid)
  \/ \E pid \in Seeds : DoPost(pid)

NextGenerator == AddressCalls \/ RecordValuation

SpecGenerator == InitAddress /\ [][NextGenerator]_vars

(***************************************************************************)
(* Calls on the catalog.                                                   *)
(***************************************************************************)
\* rows of properties_basic.json: a villa, a title with a condo and a house
\* keyword, a row holding nothing but its id
BasicRows ==
  { [id |-> 4, title |-> <<76,117,120,117,114,121,32,86,105,108,108,97>>,  \* "Luxury Villa"
     location |-> <<66,111,115,116,111,110,44,32,77,65>>,                  \* "Boston, MA"
     price |-> 1200000],
    [id |-> 2, title |-> <<67,111,110,100,111,32,72,111,109,101>>,         \* "Condo Home"
     location |-> <<82,101,110,111,44,32,78,86>>,                          \* "Reno, NV"
     price |-> 400000],
    [id |-> 4] }

\* rows of properties_features.json
FeaturesRows ==
  { [id |-> 4, size_sqft |-> 2600,
     amenities |-> << <<83,119,105,109,109,105,110,103,32,80,111,111,108>>,  \* "Swimming Pool"
                      <<67,97,114,112,111,114,116>> >>,                      \* "Carport"
     bedrooms |-> 4, bathrooms |-> 3],
    [id |-> 2, size_sqft |-> 0, amenities |-> <<>>, bedrooms |-> -1, bathrooms |-> 0],
    [id |-> 4, size_sqft |-> 1501,
     amenities |-> << <<71,97,114,97,103,101>> >>,                           \* "Garage"
     bedrooms |-> 0, bathrooms |-> -2] }

\* rows of properties_images.json
ImagesRows ==
  { [id |-> 4, image_url |-> "https://example.com/4.jpg"],
    [id |-> 9, image_url |-> "https://example.com/9.jpg"] }

\* the lists of at most n rows
RECURSIVE Tables(_, _)
Tables(rows, n) ==
  IF n = 0 THEN {<<>>}
  ELSE LET shorter == Tables(rows, n - 1)
       IN  shorter \cup {Append(t, r) : t \in shorter, r \in rows}

InitTables ==
  /\ kind = "tables"
  /\ basic \in Tables(BasicRows, MaxBasic)
  /\ features \in Tables(FeaturesRows, MaxFeatures)
  /\ images \in Tables(ImagesRows, MaxImages)
  /\ address_1 = <<>> /\ address_2 = <<>> /\ ieee = 0
  /\ payload = empty_dict /\ payload_2 = empty_dict
  /\ workers = AllIdle
  /\ cur = NoCall

(***************************************************************************)
(* Calls on the catalog.  The catalog functions read the three files anew  *)
(* on every call and keep nothing, so a behaviour serves one catalog       *)
(* request on the tables it starts with, and then values its records.      *)
(***************************************************************************)
\* load_all_properties()
LoadAllProperties ==
  /\ kind = "tables" /\ cur.fn = "none"
  /\ cur' = Call("load_all_properties", 0, None,
                 load_all_properties(basic, features, images))
  /\ UNCHANGED input

\* search queries: "", "  ", " VILLA ", "boston", "home reno", "homereno",
\* "zzz"
Queries ==
  { <<>>, <<32,32>>, <<32,86,73,76,76,65,32>>, <<98,111,115,116,111,110>>,
    <<104,111,109,101,32,114,101,110,111>>, <<104,111,109,101,114,101,110,111>>,
    <<122,122,122>> }

\* the q of GET /properties: "" and " VILLA "
ListQueries == { <<>>, <<32,86,73,76,76,65,32>> }

\* requested ids: 2 and 4 occur in BasicRows (4 in two rows), 9 only in
\* ImagesRows
Ids == {2, 4, 9}

\* the ids of POST /compare
ComparedIds == {4, 9}

\* GET /properties?q=q
ListProperties(q) ==
  /\ kind = "tables" /\ cur.fn = "none"
  /\ cur' = Call("list_properties", 0, q, list_properties(q, basic, features, images))
  /\ UNCHANGED input

\* search_properties(q)
SearchProperties(q) ==
  /\ kind = "tables" /\ cur.fn = "none"
  /\ cur' = Call("search_properties", 0, q, search_properties(q, basic, features, images))
  /\ UNCHANGED input

\* get_property_by_id(prop_id)
GetPropertyById(prop_id) ==
  /\ kind = "tables" /\ cur.fn = "none"
  /\ cur' = Call("get_property_by_id", 0, prop_id,
                 get_property_by_id(prop_id, basic, features, images))
  /\ UNCHANGED input

\* GET /properties/{prop_id}
GetProperty(prop_id) ==
  /\ kind = "tables" /\ cur.fn = "none"
  /\ cur' = Call("get_property", 0, prop_id, get_property(prop_id, basic, features, images))
  /\ UNCHANGED input

\* POST /compare {property_id_1, property_id_2}
CompareProperties(prop_id_1, prop_id_2) ==
  /\ kind = "tables" /\ cur.fn = "none"
  /\ cur' = Call("compare_properties", 0, <<prop_id_1, prop_id_2>>,
                 compare_properties(prop_id_1, prop_id_2, basic, features, images))
  /\ UNCHANGED input

CatalogCalls ==
  \/ LoadAllProperties
  \/ \E q \in ListQueries : ListProperties(q)
  \/ \E q \in Queries : SearchProperties(q)
  \/ \E prop_id \in Ids : GetPropertyById(prop_id)
  \/ \E prop_id \in Ids : GetProperty(prop_id)
  \/ \E prop_id_1 \in ComparedIds, prop_id_2 \in ComparedIds :
       CompareProperties(prop_id_1, prop_id_2)

NextCatalog == CatalogCalls \/ RecordValuation

SpecCatalog == InitTables /\ [][NextCatalog]_vars

(***************************************************************************)
(* Calls of the valuation on a feature set supplied by the caller.         *)
(***************************************************************************)
\* feature sets: every field an integer or a boolean, property_type one of
\* the enum values, another string, or absent
FeatureSets ==
  LET typed ==
        { [ property_type |-> t, lot_area |-> a[1], building_area |-> a[2],
            bedrooms |-> r[1], bathrooms |-> r[2], year_built |-> y,
            has_pool |-> m[1], has_garage |-> m[2], school_rating |-> s ] :
          t \in {"SFH", "Condo", "Townhouse"},
          a \in {<<0, 0>>, <<1800, 900>>, <<-400, -300>>},
          r \in {<<0, 0>>, <<3, 2>>},
          y \in {1600, 2005, 2030},
          m \in {<<FALSE, FALSE>>, <<TRUE, FALSE>>, <<FALSE, TRUE>>},
          s \in {1, 8, 12} }
  IN  typed \cup
      { [k \in DOMAIN f \ {"property_type"} |-> f[k]] : f \in {g \in typed : g.property_type = "Condo"} }

\* a feature set that differs from f in one field only
Variants(f) ==
  { [f EXCEPT !.lot_area = @ + 100],
    [f EXCEPT !.building_area = @ + 100],
    [f EXCEPT !.year_built = @ + 5] }

InitFeatures ==
  /\ kind = "features"
  /\ payload \in FeatureSets
  /\ payload_2 \in Variants(payload)
  /\ address_1 = <<>> /\ address_2 = <<>> /\ ieee = 0
  /\ basic = NoTable /\ features = NoTable /\ images = NoTable
  /\ workers = AllIdle
  /\ cur = NoCall

\* model.predict(x), backend
Predict(x) ==
  /\ kind = "features"
  /\ cur' = Call("_predict_one", 0, x, _predict_one(x))
  /\ UNCHANGED input

\* predict_price(x), serverless
ApiPredict(x) ==
  /\ kind = "features"
  /\ cur' = Call("predict_price", 0, x, predict_price(x))
  /\ UNCHANGED input

\* POST /predict with body x, backend
PredictEndpoint(x) ==
  /\ kind = "features"
  /\ cur' = Call("predict_endpoint", 0, x, predict_endpoint(x))
  /\ UNCHANGED input

FeatureCalls ==
  \/ \E x \in {payload, payload_2} : Predict(x)
  \/ \E x \in {payload, payload_2} : ApiPredict(x)
  \/ \E x \in {payload, payload_2} : PredictEndpoint(x)

NextValuation == FeatureCalls

SpecValuation == InitFeatures /\ [][NextValuation]_vars

(***************************************************************************)
(* Concurrent workers.  Each worker serves one request at a time, step by  *)
(* step; the steps of different workers interleave freely.  A worker is a  *)
(* process of its own hash seed.  The handlers share the three files and   *)
(* the module-level reference tables and nothing else; their locals live   *)
(* in the worker's frame.                                                  *)
(***************************************************************************)
\* the hash seed of the process of worker w
seed_of(w) == (w - 1) % NumSeeds

\* "7 Oak St, Reno" and "Manhattan"
WorkerAddresses ==
  { <<55,32,79,97,107,32,83,116,44,32,82,101,110,111>>,
    <<77,97,110,104,97,116,116,97,110>> }

\* the functions that start with load_all_properties()
TableFns == {"load_all_properties", "get_property_by_id", "search_properties"}

InitWorkers ==
  /\ kind = "workers"
  /\ address_1 \in {a \in WorkerAddresses : ~WholeProduct(a)}
  /\ address_2 \in {a \in SecondAddresses : a # <<>> /\ ~WholeProduct(a)}
  /\ ieee = 0
  /\ basic \in Tables(BasicRows, 1) \ {<<>>}
  /\ features \in Tables(FeaturesRows, 1)
  /\ images = NoTable
  /\ payload \in {f \in FeatureSets : PredictionRequest(f) /\ f.year_built = 1600
                                       /\ f.lot_area = 0 /\ f.school_rating = 1
                                       /\ f.bedrooms = 0 /\ ~f.has_pool /\ ~f.has_garage
                                       /\ f.property_type = "SFH"}
  /\ payload_2 = payload
  /\ workers = AllIdle
  /\ cur = NoCall

\* worker w steps to frame, nothing else changes
Step(w, frame) ==
  /\ workers' = [workers EXCEPT ![w] = frame]
  /\ UNCHANGED <<request, cur>>

\* a request arrives at the idle worker w
Begin(w, fn, arg) ==
  /\ kind = "workers"
  /\ workers[w].pc = "idle"
  /\ Step(w, [IdleFrame EXCEPT !.pc = "called", !.fn = fn, !.arg = arg])

\* generate_mock_property(address), backend: one step
WorkerGenerate(w) ==
  /\ workers[w].pc = "called" /\ workers[w].fn = "generate_mock_property"
  /\ Step(w, [workers[w] EXCEPT !.pc = "done",
                 !.out = generate_mock_property(workers[w].arg, seed_of(w), ieee)])

\* model.predict(x), backend: one step
WorkerPredict(w) ==
  /\ workers[w].pc = "called" /\ workers[w].fn = "_predict_one"
  /\ Step(w, [workers[w] EXCEPT !.pc = "done", !.out = _predict_one(workers[w].arg)])

\* the three _load_json calls of load_all_properties()
ReadTables(w) ==
  /\ workers[w].pc = "called" /\ workers[w].fn \in TableFns
  /\ Step(w, [workers[w] EXCEPT !.pc = "read",
                 !.tables = [basic |-> basic, features |-> features, images |-> images]])

\* the rest of load_all_properties, get_property_by_id or search_properties,
\* on the tables the worker read
Compute(w) ==
  /\ workers[w].pc = "read"
  /\ LET t == workers[w].tables
         out == IF workers[w].fn = "load_all_properties"
                THEN load_all_properties(t.basic, t.features, t.images)
                ELSE IF workers[w].fn = "get_property_by_id"
                THEN get_property_by_id(workers[w].arg, t.basic, t.features, t.images)
                ELSE search_properties(workers[w].arg, t.basic, t.features, t.images)
     IN  Step(w, [workers[w] EXCEPT !.pc = "done", !.out = out])

\* do_POST up to prop2 = generate_mock_property(address_2)
PostGenerate(w) ==
  /\ workers[w].pc = "called" /\ workers[w].fn = "do_POST"
  /\ LET addr_1 == strip(workers[w].arg[1])
         addr_2 == strip(workers[w].arg[2])
     IN  IF addr_1 = <<>> \/ addr_2 = <<>>
         THEN Step(w, [workers[w] EXCEPT !.pc = "done", !.out = Raise("HTTP 400")])
         ELSE Step(w, [workers[w] EXCEPT !.pc = "generated",
                         !.prop1 = api_generate_mock_property(addr_1, seed_of(w), ieee).value,
                         !.prop2 = api_generate_mock_property(addr_2, seed_of(w), 0).value])

\* prop1['predicted_price'] = predict_price(prop1)
PostPrice1(w) ==
  /\ workers[w].pc = "generated"
  /\ Step(w, [workers[w] EXCEPT !.pc = "priced_1",
                 !.prop1 = with_price(@, predict_price(@).value)])

\* prop2['predicted_price'] = predict_price(prop2)
PostPrice2(w) ==
  /\ workers[w].pc = "priced_1"
  /\ Step(w, [workers[w] EXCEPT !.pc = "priced_2",
                 !.prop2 = with_price(@, predict_price(@).value)])

\* the response {"property_1": prop1, "property_2": prop2} is written
PostRespond(w) ==
  /\ workers[w].pc = "priced_2"
  /\ Step(w, [workers[w] EXCEPT !.pc = "done",
                 !.out = Return([property_1 |-> workers[w].prop1,
                                 property_2 |-> workers[w].prop2])])

\* the handler returns: the worker is idle again
Finish(w) ==
  /\ workers[w].pc = "done"
  /\ Step(w, IdleFrame)

WorkerCalls ==
  \/ \E w \in Workers : Begin(w, "generate_mock_property", address_1)
  \/ \E w \in Workers : Begin(w, "_predict_one", payload)
  \/ \E w \in Workers : Begin(w, "load_all_properties", None)
  \/ \E w \in Workers : Begin(w, "get_property_by_id", 4)
  \/ \E w \in Workers : Begin(w, "search_properties", <<98,111,115,116,111,110>>)
  \/ \E w \in Workers : Begin(w, "do_POST", <<address_1, address_2>>)
  \/ \E w \in Workers : WorkerGenerate(w)
  \/ \E w \in Workers : WorkerPredict(w)
  \/ \E w \in Workers : ReadTables(w)
  \/ \E w \in Workers : Compute(w)
  \/ \E w \in Workers : PostGenerate(w)
  \/ \E w \in Workers : PostPrice1(w)
  \/ \E w \in Workers : PostPrice2(w)
  \/ \E w \in Workers : PostRespond(w)
  \/ \E w \in Workers : Finish(w)

NextWorkers == WorkerCalls

SpecWorkers == InitWorkers /\ [][NextWorkers]_vars

(***************************************************************************)
(* The heuristics, called on their own: the inference of property_type,    *)
(* the synthetic year_built and the amenity selection are pure functions   *)
(* of their arguments.                                                     *)
(***************************************************************************)
\* words of a title: the keywords of both lists, "Community" (which holds
\* "unit"), "Inflatable" (which holds "flat") and the neutral "Land", "Luxury"
TitleWords ==
  { <<65,112,97,114,116,109,101,110,116>>, <<67,111,110,100,111>>,
    <<83,116,117,100,105,111>>, <<80,69,78,84,72,79,85,83,69>>,
    <<70,108,97,116>>, <<85,110,105,116>>,
    <<86,105,108,108,97>>, <<72,111,117,115,101>>,
    <<84,111,119,110,104,111,117,115,101>>, <<68,85,80,76,69,88>>,
    <<72,111,109,101>>, <<67,111,116,116,97,103,101>>,
    <<66,117,110,103,97,108,111,119>>,
    <<67,111,109,109,117,110,105,116,121>>, <<73,110,102,108,97,116,97,98,108,101>>,
    <<76,97,110,100>>, <<76,117,120,117,114,121>> }

\* the empty title, one word, or two words separated by a space
Titles ==
  {<<>>} \cup TitleWords \cup {a \o <<32>> \o b : a \in TitleWords, b \in TitleWords}

\* ids, sizes and prices around the thresholds of _generate_year_built
YearInputs ==
  { <<i, s, p>> : i \in 0..5,
                  s \in {900, 1500, 1501, 2500, 2501},
                  p \in {0, 400000, 400001, 700000, 700001, 1000000, 1000001} }

\* fingerprints: every pair of positions the two pools can be indexed at
Fingerprints == 0..(Len(AMENITIES_POOL) * Len(api_AMENITIES_POOL) - 1)

\* amenities, has_pool and has_garage as generate_mock_property derives them
amenity_fields(pool, addr_hash, pid) ==
  LET amenities == amenities_of(pool, addr_hash, pid)
  IN  [ amenities  |-> amenities,
        has_pool   |-> any_pool(amenities),
        has_garage |-> any_garage(amenities) ]

InitHeuristics ==
  /\ kind = "heuristics"
  /\ address_1 = <<>> /\ address_2 = <<>> /\ ieee = 0
  /\ basic = NoTable /\ features = NoTable /\ images = NoTable
  /\ payload = empty_dict /\ payload_2 = empty_dict
  /\ workers = AllIdle
  /\ cur = NoCall

\* _infer_property_type(title)
InferPropertyType(title) ==
  /\ kind = "heuristics"
  /\ cur' = Call("_infer_property_type", 0, title, Return(_infer_property_type(title)))
  /\ UNCHANGED input

\* _generate_year_built(prop_id, size_sqft, price)
GenerateYearBuilt(x) ==
  /\ kind = "heuristics"
  /\ cur' = Call("_generate_year_built", 0, x, Return(_generate_year_built(x[1], x[2], x[3])))
  /\ UNCHANGED input

\* the amenity lines of generate_mock_property, backend
SelectAmenities(addr_hash, pid) ==
  /\ kind = "heuristics"
  /\ cur' = Call("amenities", pid, addr_hash,
                 Return(amenity_fields(AMENITIES_POOL, addr_hash, pid)))
  /\ UNCHANGED input

\* the amenity lines of generate_mock_property, serverless
ApiSelectAmenities(addr_hash, pid) ==
  /\ kind = "heuristics"
  /\ cur' = Call("api.amenities", pid, addr_hash,
                 Return(amenity_fields(api_AMENITIES_POOL, addr_hash, pid)))
  /\ UNCHANGED input

HeuristicCalls ==
  \/ \E title \in Titles : InferPropertyType(title)
  \/ \E x \in YearInputs : GenerateYearBuilt(x)
  \/ \E addr_hash \in Fingerprints, pid \in Seeds : SelectAmenities(addr_hash, pid)
  \/ \E addr_hash \in Fingerprints, pid \in Seeds : ApiSelectAmenities(addr_hash, pid)

NextHeuristics == HeuristicCalls

SpecHeuristics == InitHeuristics /\ [][NextHeuristics]_vars

(***************************************************************************)
(* The whole service.                                                      *)
(***************************************************************************)
Init == InitAddress \/ InitTables \/ InitFeatures

Next == AddressCalls \/ CatalogCalls \/ FeatureCalls \/ RecordValuation

Spec == Init /\ [][Next]_vars

(***************************************************************************)
(* Claims.                                                                 *)
(***************************************************************************)
\* two records equal field by field, amenities compared as a set
SameRecord(r, s) ==
  /\ DOMAIN r = DOMAIN s
  /\ \A k \in DOMAIN r \ {"amenities"} : r[k] = s[k]
  /\ Range(r.amenities) = Range(s.amenities)

\* C1: generate is deterministic.  For a non-empty address, a call of
\* generate that follows a call of the same generate on the same address, in
\* the same process or in another one, has the same outcome: the same error,
\* or records equal field by field with amenities compared as a set.
C1_Determinism ==
  [][ (address_1 # <<>> /\ cur.fn \in GenerateFns /\ cur'.fn = cur.fn)
        => /\ cur'.status = cur.status
           /\ cur.status = "ok" => SameRecord(cur.value, cur'.value) ]_vars

\* a generate call served by another process than process 0 returned its
\* record with the amenities in another order than process 0 lists them
C1_Witness ==
  /\ address_1 # <<>>
  /\ cur.fn = "generate_mock_property" /\ cur.status = "ok" /\ cur.pid # 0
  /\ cur.value.amenities # generate_mock_property(address_1, 0, ieee).value.amenities
  /\ cur.value.has_pool

\* C2: exclusivity invariant.  Every record returned by generate and every
\* record returned by load has property_type SFH or Condo, exactly one of
\* lot_area and building_area non-zero, that one equal to size_sqft, the
\* other 0, and the non-zero one is lot_area iff property_type is SFH.
C2_Exclusivity ==
  \A r \in Records(cur) :
    /\ r.property_type \in {"SFH", "Condo"}
    /\ (r.lot_area # 0) # (r.building_area # 0)
    /\ r.lot_area # 0 => (r.lot_area = r.size_sqft /\ r.building_area = 0)
    /\ r.building_area # 0 => (r.building_area = r.size_sqft /\ r.lot_area = 0)
    /\ (r.lot_area # 0) <=> (r.property_type = "SFH")

\* C3: range invariants.  Every record from generate has school_rating in
\* 1..10, year_built in 1960..2024, bedrooms >= 1 and bathrooms >= 1; every
\* record from load has school_rating in 1..10, year_built in 1950..2024,
\* bedrooms >= 0 and bathrooms >= 0, whatever the tables hold.
C3_Ranges ==
  \A r \in Records(cur) :
    /\ r.school_rating \in 1..10
    /\ cur.fn \in GenerateFns =>
         (r.year_built \in 1960..2024 /\ r.bedrooms >= 1 /\ r.bathrooms >= 1)
    /\ cur.fn = "load_all_properties" =>
         (r.year_built \in 1950..2024 /\ r.bedrooms >= 0 /\ r.bathrooms >= 0)

\* the two implementations of the valuation function
Predictors == {"_predict_one", "predict_price"}

\* the call under cur is a valuation of a feature set with a property_type
TypedValuation ==
  /\ cur.fn \in Predictors
  /\ "property_type" \in DOMAIN cur.arg

\* C4: valuation floor.  Every valuation of a feature set whose
\* property_type is SFH or Condo, whatever its integer fields and flags,
\* returns a price, and the price is at least 25000; so does the /predict
\* endpoint whenever it answers.
C4_Floor ==
  /\ (TypedValuation /\ cur.arg.property_type \in {"SFH", "Condo"})
       => (cur.status = "ok" /\ cur.value >= 25000)
  /\ (cur.fn = "predict_endpoint" /\ cur.status = "ok")
       => cur.value.predicted_price >= 25000

\* the backend valuation of a 1600 building, whose components sum far
\* below the floor, returned exactly 25000
C4_Witness ==
  /\ TypedValuation /\ cur.fn = "_predict_one"
  /\ cur.arg.property_type = "SFH" /\ cur.arg.year_built = 1600
  /\ cur.arg.lot_area = 0
  /\ cur.status = "ok" /\ cur.value = 25000

\* the area field the valuation reads for the type of f
area_key(f) == IF f.property_type = "SFH" THEN "lot_area" ELSE "building_area"

\* f and g are feature sets with the same fields, equal everywhere but at k
DiffersOnlyIn(f, g, k) ==
  /\ DOMAIN f = DOMAIN g
  /\ k \in DOMAIN f
  /\ f[k] # g[k]
  /\ \A j \in DOMAIN f \ {k} : f[j] = g[j]

\* the step values a valid feature set and then, with the same
\* predictor, a valid feature set that differs from it only at k
ComparedAt(k) ==
  /\ cur.fn \in Predictors /\ cur'.fn = cur.fn
  /\ PredictionRequest(cur.arg) /\ PredictionRequest(cur'.arg)
  /\ DiffersOnlyIn(cur.arg, cur'.arg, k)
  /\ cur.status = "ok" /\ cur'.status = "ok"

\* C5 as stated: of two valid feature sets that differ only in area, the
\* one with the larger area has the strictly larger price; of two that
\* differ only in year_built, the one with the smaller year_built has the
\* strictly smaller price; both until the smaller result is at the 25000
\* floor.
C5_StrictMonotonicity ==
  [][ /\ (ComparedAt(area_key(cur.arg)) /\ cur.value > 25000 /\ cur'.value > 25000)
        => /\ cur.arg[area_key(cur.arg)] < cur'.arg[area_key(cur.arg)]
                => cur.value < cur'.value
           /\ cur.arg[area_key(cur.arg)] > cur'.arg[area_key(cur.arg)]
                => cur.value > cur'.value
      /\ (ComparedAt("year_built") /\ cur.value > 25000 /\ cur'.value > 25000)
        => /\ cur.arg.year_built < cur'.arg.year_built => cur.value < cur'.value
           /\ cur.arg.year_built > cur'.arg.year_built => cur.value > cur'.value
    ]_vars

\* price p of the feature set with the smaller area or year_built, price q of
\* the other: p never exceeds q, and is strictly below it exactly when
\* strict holds
Ordered(p, q, strict) == p <= q /\ ((p < q) <=> strict)

\* C5, amended: of two valid feature sets that differ only in area, the one
\* with the larger area has a price that is not smaller, and strictly larger
\* exactly when it is above 25000; of two that differ only in year_built, the
\* one with the smaller year_built has a price that is not larger, and
\* strictly smaller exactly when the smaller year_built is before 2025 and
\* the other price is above 25000.
C5_Monotonicity ==
  [][ /\ ComparedAt(area_key(cur.arg))
        => /\ cur.arg[area_key(cur.arg)] < cur'.arg[area_key(cur.arg)]
                => Ordered(cur.value, cur'.value, cur'.value > 25000)
           /\ cur.arg[area_key(cur.arg)] > cur'.arg[area_key(cur.arg)]
                => Ordered(cur'.value, cur.value, cur.value > 25000)
      /\ ComparedAt("year_built")
        => /\ cur.arg.year_built < cur'.arg.year_built
                => Ordered(cur.value, cur'.value,
                           cur.arg.year_built < 2025 /\ cur'.value > 25000)
           /\ cur.arg.year_built > cur'.arg.year_built
                => Ordered(cur'.value, cur.value,
                           cur'.arg.year_built < 2025 /\ cur.value > 25000)
    ]_vars

\* the backend valued a building of 2035 right at the price of the same
\* building of 2030, above the floor
C5_Witness ==
  /\ cur.fn = "_predict_one" /\ cur.status = "ok" /\ cur.arg = payload_2
  /\ PredictionRequest(payload) /\ PredictionRequest(payload_2)
  /\ DiffersOnlyIn(payload, payload_2, "year_built")
  /\ payload.year_built = 2030
  /\ cur.value = _predict_one(payload).value
  /\ cur.value > 25000

\* C6: every valuation of an input whose property_type is not exactly SFH or
\* Condo, a missing property_type included, fails with the invalid-input
\* error (ValueError) and returns no price, in the backend and in the
\* serverless implementation.
C6_InvalidTypeRejected ==
  (cur.fn \in Predictors /\ get(cur.arg, "property_type", None) \notin {"SFH", "Condo"})
    => (cur.status = "ValueError" /\ cur.value = None)

\* the fields of a canonical record
CanonicalFields ==
  { "id", "address", "title", "listed_price", "location", "size_sqft",
    "amenities", "image_url", "property_type", "lot_area", "building_area",
    "bedrooms", "bathrooms", "year_built", "has_pool", "has_garage",
    "school_rating" }

\* C7: each implementation of generate fails with the invalid-input error
\* (ValueError) exactly when the address is empty or only whitespace, and
\* returns a complete canonical record for every other string.
C7_FailsExactlyOnBlank ==
  cur.fn \in GenerateFns =>
    /\ (cur.status = "ValueError") <=> (strip(address_1) = <<>>)
    /\ cur.status # "ValueError" =>
         (cur.status = "ok" /\ DOMAIN cur.value = CanonicalFields)

\* clamp(lo, hi, x)
clamp(lo, hi, x) == IF x < lo THEN lo ELSE IF x > hi THEN hi ELSE x

\* 1 for a set flag, 0 for a cleared one
bit(flag) == IF flag THEN 1 ELSE 0

\* the price formula of the valuation, for a feature set typed SFH or Condo
ClosedForm(f) ==
  LET sfh       == f.property_type = "SFH"
      area      == IF sfh THEN f.lot_area ELSE f.building_area
      area_rate == IF sfh THEN 12 ELSE 220
      type_bias == IF sfh THEN 65000 ELSE 35000
      total     == 75000 + type_bias + area * area_rate + f.bedrooms * 32500
                   + f.bathrooms * 27500 + clamp(1, 10, f.school_rating) * 11500
                   + 18000 * bit(f.has_pool) + 12500 * bit(f.has_garage)
                   - (IF 2025 - f.year_built > 0 THEN 2025 - f.year_built ELSE 0) * 900
  IN  IF total > 25000 THEN total ELSE 25000

\* the call under cur values a canonical record (of generate or of load) or
\* a directly supplied valid feature set
ValuesRecordOrValid ==
  /\ cur.fn \in Predictors
  /\ kind = "features" => PredictionRequest(cur.arg)

\* C8: single valuation surface.  For every canonical record, from generate
\* or from load, and every directly supplied valid feature set, the backend
\* valuation and the serverless valuation both return the closed-form price
\* max(25000, 75000 + type_bias + area * area_rate + bedrooms * 32500
\* + bathrooms * 27500 + clamp(1, 10, school_rating) * 11500 + 18000 * has_pool
\* + 12500 * has_garage - max(0, 2025 - year_built) * 900), hence the same one.
C8_SingleSurface ==
  ValuesRecordOrValid => (cur.status = "ok" /\ cur.value = ClosedForm(cur.arg))

\* the backend valued a record of the normalizer, with rooms of both kinds
\* in different numbers, above the floor
C8_Witness ==
  /\ kind = "tables" /\ cur.fn = "_predict_one" /\ cur.status = "ok"
  /\ cur.arg.bedrooms > cur.arg.bathrooms /\ cur.arg.bathrooms > 0
  /\ cur.value > 25000
  /\ cur.value = predict_price(cur.arg).value

\* the fields both records carry agree, amenities compared as a set
AgreeOnCommonFields(r, s) ==
  \A k \in DOMAIN r \cap DOMAIN s :
    IF k = "amenities" THEN Range(r[k]) = Range(s[k]) ELSE r[k] = s[k]

\* C9: an address is served the same record and the same predicted price by
\* the backend and by the serverless function: the record the serverless
\* generator returns right after the backend generator equals it field by
\* field, and the priced record POST /api/compare-addresses answers right
\* after GET /lookup-address agrees with it on every field both carry
\* (title, image_url, amenities as a set, has_pool, has_garage and
\* predicted_price included).
C9_SameWhereverServed ==
  [][ /\ ( /\ cur.fn = "generate_mock_property" /\ cur.status = "ok"
           /\ cur'.fn = "api.generate_mock_property" /\ cur'.status = "ok" )
        => SameRecord(cur.value, cur'.value)
      /\ ( /\ cur.fn = "lookup_address" /\ cur.status = "ok"
           /\ cur'.fn = "do_POST" /\ cur'.status = "ok" )
        => AgreeOnCommonFields(cur.value, cur'.value.property_1)
    ]_vars

\* the positions of the Market Profile keys that occur in the lower-cased
\* address
Matches(address) ==
  {i \in 1..Len(CITY_DATA) : str_in(CITY_DATA[i].key, lower(address))}

\* the Market Profile the claim assigns to an address with fingerprint h
ProfileOf(address, h) ==
  IF Matches(address) = {}
  THEN [ avg_price |-> 500000, school |-> 7, sqft_range |-> <<1000, 2500>>,
         type |-> IF h % 2 = 0 THEN "SFH" ELSE "Condo" ]
  ELSE LET first == CHOOSE i \in Matches(address) :
                      \A j \in Matches(address) : i <= j
       IN  [ avg_price |-> CITY_DATA[first].avg_price, school |-> CITY_DATA[first].school,
             sqft_range |-> CITY_DATA[first].sqft_range, type |-> CITY_DATA[first].type ]

\* record r was generated from profile p for fingerprint h
GeneratedFrom(r, p, h) ==
  /\ r.property_type = p.type
  /\ r.size_sqft = p.sqft_range[1] + (h % (p.sqft_range[2] - p.sqft_range[1]))
  /\ r.school_rating = clamp(1, 10, p.school + (h % 3) - 1)
  /\ r.listed_price = listed_price_of(p.avg_price, h, r.size_sqft, ieee)

\* C10: city detection tie-break.  Every record generate returns is built
\* from the profile of the first key, in the declaration order of CITY_DATA,
\* that occurs in the lower-cased address, wherever the city names stand in
\* the address; an address with no known city is built from avg_price 500000,
\* school base 7, sqft range (1000, 2500) and type SFH iff the fingerprint
\* is even.
C10_FirstKeyWins ==
  (cur.fn = "generate_mock_property" /\ cur.status = "ok") =>
    GeneratedFrom(cur.value, ProfileOf(cur.value.address, _hash_address(cur.value.address)),
                  _hash_address(cur.value.address))

\* an address naming Manhattan before New York was given the New York
\* profile, which is not what the Manhattan profile would have produced
C10_Witness ==
  /\ cur.fn = "generate_mock_property" /\ cur.status = "ok"
  /\ Matches(address_1) = {1, 2}
  /\ ~str_in(CITY_DATA[1].key, first_n(lower(address_1), Len(address_1) - 1))
  /\ str_in(CITY_DATA[2].key, first_n(lower(address_1), Len(address_1) - 1))
  /\ cur.value.listed_price =
       listed_price_of(CITY_DATA[1].avg_price, _hash_address(cur.value.address),
                       cur.value.size_sqft, ieee)
  /\ cur.value.listed_price #
       listed_price_of(CITY_DATA[2].avg_price, _hash_address(cur.value.address),
                       cur.value.size_sqft, ieee)

\* the records of load() on the tables of the behaviour
Loaded == load_all_properties(basic, features, images).value

\* the records of Loaded, in its order, whose text contains the lower-cased,
\* trimmed query; all of them for a query that trims to the empty string
Filtered(query, Text(_)) ==
  LET wanted  == strip(lower(query))
      Keep(r) == str_in(wanted, lower(Text(r)))
  IN  IF wanted = <<>> THEN Loaded ELSE SelectSeq(Loaded, Keep)

\* title immediately followed by location
TitleLocation(r) == r.title \o r.location

\* title, one space, location
TitleSpaceLocation(r) == r.title \o <<32>> \o r.location

\* the responses list the records wanted, in their order
Lists(responses, wanted) ==
  /\ Len(responses) = Len(wanted)
  /\ \A i \in DOMAIN wanted :
       /\ responses[i].id = wanted[i].id
       /\ responses[i].title = wanted[i].title
       /\ responses[i].location = wanted[i].location

\* C11 as stated: search(query) returns exactly the records of load() for
\* which the lower-cased, trimmed query is a substring of the lower-cased
\* concatenation of title and location, in the basic table's order, and every
\* record for an empty or whitespace-only query.
C11_SearchConcatenation ==
  cur.fn = "search_properties" =>
    (cur.status = "ok" /\ cur.value = Filtered(cur.arg, TitleLocation))

\* C11, amended: search(query) returns exactly the records of load() for
\* which the lower-cased, trimmed query is a substring of the lower-cased
\* text "title, one space, location", in the basic table's order, and every
\* record for an empty or whitespace-only query; GET /properties lists the
\* same records.
C11_Search ==
  /\ cur.fn = "search_properties" =>
       (cur.status = "ok" /\ cur.value = Filtered(cur.arg, TitleSpaceLocation))
  /\ cur.fn = "list_properties" =>
       (cur.status = "ok" /\ Lists(cur.value, Filtered(cur.arg, TitleSpaceLocation)))

\* a search for "home reno" on a catalog of two different rows returned the
\* one whose title ends in "Home" and whose location starts with "Reno"
C11_Witness ==
  /\ cur.fn = "search_properties" /\ cur.status = "ok"
  /\ cur.arg = <<104,111,109,101,32,114,101,110,111>>
  /\ Len(basic) = 2 /\ basic[1].id = 4 /\ basic[2].id = 2
  /\ Len(cur.value) = 1 /\ cur.value[1].id = 2

\* some row of the table has this id
HasRow(table, id) == \E i \in DOMAIN table : table[i].id = id

\* C12: left join from basic.  load() returns exactly one record per basic
\* row, in the basic table's order, whatever the features and images tables
\* hold; a row whose id has no features row gets size_sqft 1000, no
\* amenities, 2 bedrooms and 1 bathroom, one whose id has no images row gets
\* the empty image_url, and rows of features or images whose id is not in
\* basic produce no record.
C12_LeftJoin ==
  cur.fn = "load_all_properties" =>
    /\ cur.status = "ok"
    /\ Len(cur.value) = Len(basic)
    /\ \A i \in DOMAIN basic :
         /\ cur.value[i].id = basic[i].id
         /\ cur.value[i].title = get(basic[i], "title", <<>>)
         /\ ~HasRow(features, basic[i].id) =>
              /\ cur.value[i].size_sqft = 1000
              /\ cur.value[i].amenities = <<>>
              /\ cur.value[i].bedrooms = 2
              /\ cur.value[i].bathrooms = 1
         /\ ~HasRow(images, basic[i].id) => cur.value[i].image_url = ""

\* load() on two basic rows, with a features row for the second id only and
\* an images row for an id that is not in basic, returned two records, the
\* first with the defaults
C12_Witness ==
  /\ cur.fn = "load_all_properties" /\ cur.status = "ok"
  /\ Len(basic) = 2 /\ basic[1].id = 4 /\ basic[2].id = 2
  /\ features # <<>> /\ ~HasRow(features, 4) /\ HasRow(features, 2)
  /\ images # <<>> /\ ~HasRow(images, 4) /\ ~HasRow(images, 2)
  /\ Len(cur.value) = 2
  /\ cur.value[1].size_sqft = 1000 /\ cur.value[1].image_url = ""
  /\ cur.value[2].size_sqft # 1000

\* the positions of the basic rows with this id
RowsWithId(id) == {i \in DOMAIN basic : basic[i].id = id}

\* the least element of a non-empty set of numbers
Least(S) == CHOOSE i \in S : \A j \in S : i <= j

\* C13: byId(id) returns the record load() builds for the first basic row
\* with the requested id when there is one, and the not-found value None,
\* never an error, when there is none; GET /properties/{id} and POST /compare
\* answer not-found (404), with no price, when an id has no row, and a priced
\* record for each id otherwise.
C13_ById ==
  /\ cur.fn = "get_property_by_id" =>
       /\ cur.status = "ok"
       /\ RowsWithId(cur.arg) = {} => cur.value = Nothing
       /\ RowsWithId(cur.arg) # {} => cur.value = Some(Loaded[Least(RowsWithId(cur.arg))])
  /\ cur.fn = "get_property" =>
       /\ RowsWithId(cur.arg) = {} => (cur.status = "HTTP 404" /\ cur.value = None)
       /\ RowsWithId(cur.arg) # {} =>
            (cur.status = "ok" /\ "predicted_price" \in DOMAIN cur.value)
  /\ cur.fn = "compare_properties" =>
       /\ (RowsWithId(cur.arg[1]) = {} \/ RowsWithId(cur.arg[2]) = {})
            => (cur.status = "HTTP 404" /\ cur.value = None)
       /\ (RowsWithId(cur.arg[1]) # {} /\ RowsWithId(cur.arg[2]) # {})
            => /\ cur.status = "ok"
               /\ "predicted_price" \in DOMAIN cur.value.property_1
               /\ "predicted_price" \in DOMAIN cur.value.property_2

\* byId(4) on a catalog with two different rows of id 4 returned the record
\* of the first one
C13_Witness ==
  /\ cur.fn = "get_property_by_id" /\ cur.status = "ok" /\ cur.arg = 4
  /\ Len(basic) = 2 /\ basic[1].id = 4 /\ basic[2].id = 4 /\ basic[1] # basic[2]
  /\ "title" \in DOMAIN basic[1]
  /\ cur.value # Nothing
  /\ cur.value[1].title = basic[1].title
  /\ cur.value[1] # Loaded[2]

\* POST /compare with a known first id and an unknown second id was answered
\* not-found
C13_WitnessCompare ==
  /\ cur.fn = "compare_properties" /\ cur.arg = <<4, 9>>
  /\ RowsWithId(4) # {} /\ cur.status = "HTTP 404"

\* what the call in the frame of worker w returns when it runs alone, in the
\* process of w, on the files and addresses of the behaviour
Alone(w) ==
  LET fn == workers[w].fn
  IN  IF fn = "generate_mock_property"
      THEN generate_mock_property(address_1, seed_of(w), ieee)
      ELSE IF fn = "_predict_one" THEN _predict_one(payload)
      ELSE IF fn = "load_all_properties" THEN load_all_properties(basic, features, images)
      ELSE IF fn = "get_property_by_id"
      THEN get_property_by_id(workers[w].arg, basic, features, images)
      ELSE IF fn = "search_properties"
      THEN search_properties(workers[w].arg, basic, features, images)
      ELSE do_POST(address_1, address_2, seed_of(w), ieee, 0)

\* every call that has finished holds the result of the call run alone
SameAsAlone ==
  \A w \in Workers :
    workers[w].pc = "done" =>
      /\ workers[w].out.status = Alone(w).status
      /\ workers[w].out.status = "ok" => workers[w].out.value = Alone(w).value

\* record r turned into record s by getting a predicted_price and nothing else
OnlyPriced(r, s) ==
  /\ DOMAIN s = DOMAIN r \cup {"predicted_price"}
  /\ \A k \in DOMAIN r \ {"predicted_price"} : s[k] = r[k]

\* a step changes the frame of one worker only, and a record in that frame,
\* once constructed, changes only by getting its predicted_price
RecordsKept ==
  \A w \in Workers :
    /\ workers'[w].pc = workers[w].pc => workers'[w] = workers[w]
    /\ (workers[w].pc = "generated" /\ workers'[w].pc # "generated") =>
         /\ OnlyPriced(workers[w].prop1, workers'[w].prop1)
         /\ workers'[w].prop2 = workers[w].prop2
    /\ (workers[w].pc = "priced_1" /\ workers'[w].pc # "priced_1") =>
         /\ workers'[w].prop1 = workers[w].prop1
         /\ OnlyPriced(workers[w].prop2, workers'[w].prop2)
    /\ (workers[w].pc = "priced_2" /\ workers'[w].pc # "priced_2") =>
         /\ workers'[w].out.value.property_1 = workers[w].prop1
         /\ workers'[w].out.value.property_2 = workers[w].prop2

\* C14: statelessness under concurrency.  Whatever the number of workers and
\* the interleaving of their generate, load, byId, search, predict and
\* compare-addresses calls, every call returns what it returns when it runs
\* alone, the source tables are never written, and a record is not changed
\* after its construction except by attaching its predicted_price.
C14_Stateless ==
  /\ []SameAsAlone
  /\ [][ /\ basic' = basic /\ features' = features /\ images' = images
         /\ RecordsKept ]_vars

\* one worker stands between the two price assignments of a comparison while
\* another has finished a load it began in between
C14_Witness ==
  /\ \E w \in Workers, v \in Workers :
       /\ w # v
       /\ workers[w].pc = "priced_1"
       /\ workers[v].pc = "done" /\ workers[v].fn = "load_all_properties"
       /\ workers[v].out.value # <<>>


(***************************************************************************)
(* C15: the priority of the property_type inference.                       *)
(***************************************************************************)
\* the words of spec for an apartment-like title
CondoWords ==
  { <<97,112,97,114,116,109,101,110,116>>, <<99,111,110,100,111>>,
    <<115,116,117,100,105,111>>, <<112,101,110,116,104,111,117,115,101>>,
    <<102,108,97,116>>, <<117,110,105,116>> }

\* the words of the spec for a house-like title
HouseWords ==
  { <<118,105,108,108,97>>, <<104,111,117,115,101>>,
    <<116,111,119,110,104,111,117,115,101>>, <<100,117,112,108,101,120>>,
    <<104,111,109,101>>, <<99,111,116,116,97,103,101>>,
    <<98,117,110,103,97,108,111,119>> }

Mentions(words, title) == \E k \in words : str_in(k, lower(title))

\* C15: _infer_property_type answers "Condo" when the lower-cased title holds
\* one of apartment, condo, studio, penthouse, flat, unit, even when it also
\* holds a house word; otherwise "SFH" when it holds one of villa, house,
\* townhouse, duplex, home, cottage, bungalow; otherwise "Condo". The answer
\* is always one of the two values.
C15_TypePriority ==
  cur.fn = "_infer_property_type" =>
    /\ cur.status = "ok"
    /\ cur.value \in {"SFH", "Condo"}
    /\ Mentions(CondoWords, cur.arg) => cur.value = "Condo"
    /\ (~Mentions(CondoWords, cur.arg) /\ Mentions(HouseWords, cur.arg))
         => cur.value = "SFH"
    /\ (~Mentions(CondoWords, cur.arg) /\ ~Mentions(HouseWords, cur.arg))
         => cur.value = "Condo"

\* "Villa PENTHOUSE", a title with a house word before an apartment word in
\* another case, was inferred to be a Condo
C15_Witness ==
  /\ cur.fn = "_infer_property_type" /\ cur.status = "ok"
  /\ cur.arg = <<86,105,108,108,97>> \o <<32>> \o <<80,69,78,84,72,79,85,83,69>>
  /\ Mentions(HouseWords, cur.arg)
  /\ cur.value = "Condo"

(***************************************************************************)
(* C16: the synthetic year_built.                                          *)
(***************************************************************************)
\* the bonus of the spec for a price
PriceBonus(price) ==
  IF price > 1000000 THEN 35
  ELSE IF price > 700000 THEN 25
  ELSE IF price > 400000 THEN 15
  ELSE 0

\* the bonus of the spec for a size
SizeBonus(size_sqft) ==
  IF size_sqft > 2500 THEN 10 ELSE IF size_sqft > 1500 THEN 5 ELSE 0

\* C16: year_built = clamp(1950, 2024, 1970 + P + S + ((id * 3) mod 15)) with
\* P = 35 above 1000000, 25 above 700000, 15 above 400000, else 0, and
\* S = 10 above 2500 sqft, 5 above 1500 sqft, else 0; a value exactly at a
\* threshold earns the lower bonus.
C16_YearBuilt ==
  cur.fn = "_generate_year_built" =>
    /\ cur.status = "ok"
    /\ cur.value = clamp(1950, 2024,
                         1970 + PriceBonus(cur.arg[3]) + SizeBonus(cur.arg[2])
                              + ((cur.arg[1] * 3) % 15))
    /\ cur.arg[3] \in {400000, 700000, 1000000} =>
         PriceBonus(cur.arg[3]) = PriceBonus(cur.arg[3] - 1)
    /\ cur.arg[2] \in {1500, 2500} =>
         SizeBonus(cur.arg[2]) = SizeBonus(cur.arg[2] - 1)

\* id 4 at a price of exactly 1000000 and a size of exactly 2500 was built in
\* 1970 + 25 + 5 + 12 = 2012, under the upper clamp
C16_Witness ==
  /\ cur.fn = "_generate_year_built" /\ cur.status = "ok"
  /\ cur.arg = <<4, 2500, 1000000>>
  /\ cur.value = 2012

\* id 4 above both top thresholds was clamped to 2024
C16_WitnessClamped ==
  /\ cur.fn = "_generate_year_built" /\ cur.status = "ok"
  /\ cur.arg = <<4, 2501, 1000001>>
  /\ cur.value = 2024

(***************************************************************************)
(* C17: the amenities of a generated record and the flags drawn from them. *)
(***************************************************************************)
FirstTwo(bundle) == {bundle[i] : i \in DOMAIN bundle \cap 1..2}

Bundle(pool, n) == pool[(n % Len(pool)) + 1]

PoolOf(fn) == IF fn = "amenities" THEN AMENITIES_POOL ELSE api_AMENITIES_POOL

Holds(word, amenity) == str_in(word, lower(amenity))

GarageLike(amenity) ==
  \/ Holds(<<103,97,114,97,103,101>>, amenity)
  \/ Holds(<<112,97,114,107,105,110,103>>, amenity)

\* C17: the amenities are the de-duplicated union of the first two entries of
\* pool[h mod len(pool)] and of pool[(h + 3) mod len(pool)], between 2 and 4
\* of them; has_pool holds exactly when one of these amenities holds "pool",
\* has_garage exactly when one holds "garage" or "parking", whatever the case
\* of the letters, and never for an entry of a bundle that was not selected.
C17_Amenities ==
  cur.fn \in {"amenities", "api.amenities"} =>
    LET pool     == PoolOf(cur.fn)
        selected == FirstTwo(Bundle(pool, cur.arg)) \cup FirstTwo(Bundle(pool, cur.arg + 3))
        listed   == {cur.value.amenities[i] : i \in DOMAIN cur.value.amenities}
    IN  /\ cur.status = "ok"
        /\ listed = selected
        /\ Len(cur.value.amenities) = Cardinality(listed)
        /\ Len(cur.value.amenities) \in 2..4
        /\ cur.value.has_pool <=> \E a \in listed : Holds(<<112,111,111,108>>, a)
        /\ cur.value.has_garage <=> \E a \in listed : GarageLike(a)

\* the first bundle, whose third entry is "Parking", was one of the two
\* bundles: "Swimming Pool" was selected and made has_pool true, "Parking" was
\* not selected and has_garage is false
C17_Witness ==
  /\ cur.fn = "amenities" /\ cur.status = "ok"
  /\ \E i \in DOMAIN Bundle(AMENITIES_POOL, cur.arg) :
       i > 2 /\ GarageLike(Bundle(AMENITIES_POOL, cur.arg)[i])
  /\ Len(cur.value.amenities) = 4
  /\ cur.value.has_pool
  /\ ~cur.value.has_garage

(***************************************************************************)
(* C18: a generated record is always valued, above the floor.              *)
(***************************************************************************)
ValuationFns == {"_predict_one", "predict_price"}

\* the call valued a record: it raised nothing and its price is over 25000
PricedOverFloor(c) == c.status = "ok" /\ c.value > 25000

\* the address of the behaviour, as the generator it is handed to sees it
Blank(address) == strip(address) = <<>>

\* the endpoints that generate and value: once the addresses are accepted the
\* answer is a record (never a 500 of the model) priced over the floor
ServedOverFloor ==
  /\ (cur.fn = "lookup_address" /\ ~Blank(address_1)) =>
       /\ cur.status = "ok"
       /\ cur.value.predicted_price > 25000
  /\ (cur.fn \in {"compare_by_addresses", "do_POST"}
        /\ ~Blank(address_1) /\ ~Blank(address_2)) =>
       /\ cur.status = "ok"
       /\ cur.value.property_1.predicted_price > 25000
       /\ cur.value.property_2.predicted_price > 25000

\* a valuation that follows a generator call values the generated record
ValuedOverFloor ==
  (/\ cur.fn \in GenerateFns /\ cur.status = "ok" /\ address_1 # <<>>
   /\ cur'.fn \in ValuationFns)
    => /\ cur.value.property_type \in {"SFH", "Condo"}
       /\ PricedOverFloor(cur')

\* C18: for every non-empty address, the record generate returns has a
\* property_type the valuation accepts, no valuation of it raises, and its
\* predicted price is strictly greater than 25000: the floor is never the
\* value returned for a generated record, by either valuation and by the
\* lookup and compare endpoints.
C18_GeneratedOverFloor == []ServedOverFloor /\ [][ValuedOverFloor]_vars

\* the record generated for a non-blank address without a known city was
\* valued by the backend model, 1970 house included, over the floor
C18_Witness ==
  /\ cur.fn = "_predict_one" /\ cur.status = "ok"
  /\ ~Blank(address_1)
  /\ cur.arg = get_model_input(mock_property(address_1, 0, ieee))
  /\ cur.arg.year_built = 1970
  /\ cur.value > 25000
=============================================================================
